---------------------------- MODULE Spec2Model ----------------------------
(***************************************************************************)
(* State-machine model of the SelectionManager class (selection-manager.ts *)
(* as found in src/unnamed/part_002) and of the patch engine (patches.ts   *)
(* as found in src/unnamed/part_000).                                      *)
(*                                                                         *)
(* Encoding of the TypeScript values:                                      *)
(*   MaybeInfNumber  {type:"number",value:n} | {type:"infinity"}           *)
(*       -> [type |-> "number", value |-> n] | [type |-> "infinity",       *)
(*          value |-> 0]  (the value field of an infinity is a filler)     *)
(*   cell            {row, col}            -> [row |-> r, col |-> c]       *)
(*   SMArea          {start:{row,col}, end:{row:MaybeInf, col:MaybeInf}}   *)
(*       -> [start |-> cell, end |-> [row |-> m, col |-> m],               *)
(*           type, direction, eventType]                                   *)
(*      an area object literal of the source has only start and end; the   *)
(*      three extra keys are "" for it.  They are not "" only for the      *)
(*      isSelecting object itself, which mouseUp pushes unchanged into     *)
(*      selections when a shrinking fill is committed.                     *)
(*   IsSelecting     {type:"none"} | SMArea & {type, direction, eventType} *)
(*       -> the same record shape, with start/end fillers for "none"       *)
(***************************************************************************)
EXTENDS Integers, Sequences, FiniteSets, TLC

VARIABLES
    numRows,                  \* value returned by getNumRows()
    numCols,                  \* value returned by getNumCols()
    groups,                   \* value returned by getGroups()
    hasFocus,                 \* SelectionManager.hasFocus
    selections,               \* SelectionManager.selections
    isSelecting,              \* SelectionManager.isSelecting
    isEditing,                \* SelectionManager.isEditing
    isHovering,               \* SelectionManager.isHovering
    controlled,               \* SelectionManager.controlled
    prevState,                \* SelectionManager.prevState
    nextState,                \* const nextState of the last onUpdate()
    patches,                  \* SelectionManager.patches
    selAlias,                 \* which stored patch value is the live selections array
    nextStateListeners,       \* SelectionManager.nextStateListeners
    requestedStateListeners,  \* SelectionManager.requestedStateListeners
    behaviour,                \* what each registered callback does when called
    closures,                 \* the unsubscribe functions handed out so far, as [list, callback]
    log,                      \* calls made to state listeners by the last operation
    fillLog,                  \* FillEvents handed to the fill listeners by the last operation
    updateLog,                \* batches handed to the cell-update listeners by the last operation
    copyLog,                  \* number of calls to the copy listeners by the last operation
    prevented,                \* whether the last key event had preventDefault() called
    thrown,                   \* error message the last operation ended with ("" if it returned)
    lastOp,                   \* the entry point called last, with its arguments
    gesture,                  \* the cell pressed last and the cell entered last since
    steps,                    \* number of entry-point calls so far
    fn,                       \* call frame of the pure function under check
    held                      \* a state object obtained earlier, as its holder reads it now

vars == << numRows, numCols, groups, hasFocus, selections, isSelecting, isEditing,
           isHovering, controlled, prevState, nextState, patches, selAlias, nextStateListeners,
           requestedStateListeners, behaviour, closures, log, fillLog, updateLog,
           copyLog, prevented, thrown, lastOp, gesture, steps, fn, held >>

-----------------------------------------------------------------------------
(* Bounds of the model *)

\* largest row and column index of a cell that an event or an area may name
MaxCoord == 2
\* number of entry-point calls explored along one behaviour
MaxOps == 3
\* longest selection list drawn as a starting state
MaxSel == 2

-----------------------------------------------------------------------------
(* Values *)

Num(n) == [type |-> "number", value |-> n]
INF == [type |-> "infinity", value |-> 0]

Coords == 0..MaxCoord
\* exclusive region boundaries reach one past the largest coordinate
MaybeInfs == {Num(n) : n \in 0..(MaxCoord + 1)} \cup {INF}

Cell(r, c) == [row |-> r, col |-> c]
Cells == {Cell(r, c) : r \in Coords, c \in Coords}

mkArea(sr, sc, er, ec) ==
    [start |-> [row |-> sr, col |-> sc], end |-> [row |-> er, col |-> ec],
     type |-> "", direction |-> "", eventType |-> ""]

\* the {start, end} object literal built from two existing corner objects
plainArea(start, end) ==
    [start |-> start, end |-> end, type |-> "", direction |-> "", eventType |-> ""]

\* {type: "none"}
NoneSelecting ==
    [start |-> [row |-> 0, col |-> 0], end |-> [row |-> Num(0), col |-> Num(0)],
     type |-> "none", direction |-> "", eventType |-> ""]

mkSelecting(type, start, end) ==
    [start |-> start, end |-> end, type |-> type, direction |-> "", eventType |-> ""]

mkFill(direction, eventType, sr, sc, er, ec) ==
    [start |-> [row |-> sr, col |-> sc], end |-> [row |-> er, col |-> ec],
     type |-> "fill", direction |-> direction, eventType |-> eventType]

\* "undefined" results of the source
Undefined == [type |-> "undefined"]

-----------------------------------------------------------------------------
(* Bound algebra: part_002 lines 555-669 *)

MinInt(a, b) == IF a <= b THEN a ELSE b
MaxInt(a, b) == IF a >= b THEN a ELSE b
AbsInt(a) == IF a >= 0 THEN a ELSE 0 - a

getActualEndRow ==
    IF numRows.type = "infinity" THEN INF ELSE Num(numRows.value - 1)

getActualEndCol ==
    IF numCols.type = "infinity" THEN INF ELSE Num(numCols.value - 1)

normalizeEndBound(endBound, tableSize) ==
    IF endBound.type = "infinity"
    THEN IF tableSize.type = "infinity" THEN INF ELSE Num(tableSize.value - 1)
    ELSE endBound

\* min(a: number, b: MaybeInfNumber): number
min(a, b) == IF b.type = "infinity" THEN a ELSE MinInt(a, b.value)

\* max(a: number, b: MaybeInfNumber): MaybeInfNumber
max(a, b) == IF b.type = "infinity" THEN INF ELSE Num(MaxInt(a, b.value))

minMaybeInf(a, b) ==
    IF a.type = "infinity" /\ b.type = "infinity" THEN a
    ELSE IF b.type = "infinity" THEN a
    ELSE IF a.type = "infinity" THEN b
    ELSE Num(MinInt(a.value, b.value))

maxMaybeInf(a, b) ==
    IF a.type = "infinity" THEN a
    ELSE IF b.type = "infinity" THEN b
    ELSE Num(MaxInt(a.value, b.value))

equals(a, b) ==
    IF a.type # b.type THEN FALSE
    ELSE IF a.type = "number" /\ b.type = "number" THEN a.value = b.value
    ELSE TRUE

lt(a, b) ==
    IF a.type = "infinity" THEN FALSE
    ELSE IF b.type = "infinity" THEN TRUE
    ELSE a.value < b.value

gt(a, b) == ~equals(a, b) /\ ~lt(a, b)

lte(a, b) == lt(a, b) \/ equals(a, b)

gte(a, b) == gt(a, b) \/ equals(a, b)

\* the comparator `sort` of part_002 lines 22-33, as the order it induces
sortBefore(a, b) == lt(a, b)


-----------------------------------------------------------------------------
(* Selection geometry: part_002 lines 671-834 *)

cellInSelection(cell, selection) ==
    LET startRow == min(selection.start.row, selection.end.row)
        startCol == min(selection.start.col, selection.end.col)
        endRow == max(selection.start.row, selection.end.row)
        endCol == max(selection.start.col, selection.end.col)
        actualEndRow == normalizeEndBound(endRow, numRows)
        actualEndCol == normalizeEndBound(endCol, numCols)
    IN  /\ cell.row >= startRow
        /\ (actualEndRow.type = "infinity" \/ cell.row <= actualEndRow.value)
        /\ cell.col >= startCol
        /\ (actualEndCol.type = "infinity" \/ cell.col <= actualEndCol.value)

selectionsOverlap(a, b) ==
    LET aMinRow == min(a.start.row, a.end.row)
        aMaxRow == max(a.start.row, a.end.row)
        aMinCol == min(a.start.col, a.end.col)
        aMaxCol == max(a.start.col, a.end.col)
        bMinRow == min(b.start.row, b.end.row)
        bMaxRow == max(b.start.row, b.end.row)
        bMinCol == min(b.start.col, b.end.col)
        bMaxCol == max(b.start.col, b.end.col)
    IN  ~ \/ lt(aMaxRow, Num(bMinRow))
          \/ gt(Num(aMinRow), bMaxRow)
          \/ lt(aMaxCol, Num(bMinCol))
          \/ gt(Num(aMinCol), bMaxCol)

\* a result that is either a value or a thrown Error
Ok(v) == [thrown |-> "", value |-> v]
Throw(msg) == [thrown |-> msg, value |-> << >>]

RemoveInfiniteError == "Should not be possible to remove an infinite area"

\* the band above the removed area, ending on the first removed row instead of
\* the row before it (an off-by-one slip)
subtractTopOffByOne(original, toRemove) ==
    LET origMinRow == min(original.start.row, original.end.row)
        origMaxRow == max(original.start.row, original.end.row)
        origMinCol == min(original.start.col, original.end.col)
        origMaxCol == max(original.start.col, original.end.col)
        removeMinRow == min(toRemove.start.row, toRemove.end.row)
    IN  IF origMinRow < removeMinRow
        THEN << mkArea(origMinRow, origMinCol,
                       Num(min(removeMinRow, origMaxRow)), origMaxCol) >>
        ELSE << >>

\* the band above the removed area (lines 749-761)
subtractTop(original, toRemove) ==
    LET origMinRow == min(original.start.row, original.end.row)
        origMaxRow == max(original.start.row, original.end.row)
        origMinCol == min(original.start.col, original.end.col)
        origMaxCol == max(original.start.col, original.end.col)
        removeMinRow == min(toRemove.start.row, toRemove.end.row)
    IN  IF origMinRow < removeMinRow
        THEN << mkArea(origMinRow, origMinCol,
                       Num(min(removeMinRow - 1, origMaxRow)), origMaxCol) >>
        ELSE << >>

\* the band below the removed area taken when the original ends on the last
\* removed row as well (>= for >)
subtractBottomFromLastRow(original, toRemove) ==
    LET origMinRow == min(original.start.row, original.end.row)
        origMaxRow == max(original.start.row, original.end.row)
        origMinCol == min(original.start.col, original.end.col)
        origMaxCol == max(original.start.col, original.end.col)
        removeMaxRow == max(toRemove.start.row, toRemove.end.row)
    IN  IF gte(origMaxRow, removeMaxRow)
        THEN IF removeMaxRow.type = "infinity"
             THEN Throw(RemoveInfiniteError)
             ELSE Ok(<< mkArea(MaxInt(origMinRow, removeMaxRow.value + 1), origMinCol,
                               origMaxRow, origMaxCol) >>)
        ELSE Ok(<< >>)

\* the band below the removed area (lines 763-775)
subtractBottom(original, toRemove) ==
    LET origMinRow == min(original.start.row, original.end.row)
        origMaxRow == max(original.start.row, original.end.row)
        origMinCol == min(original.start.col, original.end.col)
        origMaxCol == max(original.start.col, original.end.col)
        removeMaxRow == max(toRemove.start.row, toRemove.end.row)
    IN  IF gt(origMaxRow, removeMaxRow)
        THEN IF removeMaxRow.type = "infinity"
             THEN Throw(RemoveInfiniteError)
             ELSE Ok(<< mkArea(MaxInt(origMinRow, removeMaxRow.value + 1), origMinCol,
                               origMaxRow, origMaxCol) >>)
        ELSE Ok(<< >>)

\* the band left of the removed area, within its row span (lines 777-793)
subtractLeft(original, toRemove) ==
    LET origMinRow == min(original.start.row, original.end.row)
        origMaxRow == max(original.start.row, original.end.row)
        origMinCol == min(original.start.col, original.end.col)
        origMaxCol == max(original.start.col, original.end.col)
        removeMinRow == min(toRemove.start.row, toRemove.end.row)
        removeMaxRow == max(toRemove.start.row, toRemove.end.row)
        removeMinCol == min(toRemove.start.col, toRemove.end.col)
        topRow == MaxInt(origMinRow, removeMinRow)
        bottomRow == minMaybeInf(origMaxRow, removeMaxRow)
    IN  IF origMinCol < removeMinCol /\ lte(Num(topRow), bottomRow)
        THEN << mkArea(topRow, origMinCol,
                       bottomRow, Num(min(removeMinCol - 1, origMaxCol))) >>
        ELSE << >>

\* the band right of the removed area, within its row span (lines 795-811)
subtractRight(original, toRemove) ==
    LET origMinRow == min(original.start.row, original.end.row)
        origMaxRow == max(original.start.row, original.end.row)
        origMinCol == min(original.start.col, original.end.col)
        origMaxCol == max(original.start.col, original.end.col)
        removeMinRow == min(toRemove.start.row, toRemove.end.row)
        removeMaxRow == max(toRemove.start.row, toRemove.end.row)
        removeMaxCol == max(toRemove.start.col, toRemove.end.col)
        topRow == MaxInt(origMinRow, removeMinRow)
        bottomRow == minMaybeInf(origMaxRow, removeMaxRow)
    IN  IF gt(origMaxCol, removeMaxCol) /\ lte(Num(topRow), bottomRow)
        THEN IF removeMaxCol.type = "infinity"
             THEN Throw(RemoveInfiniteError)
             ELSE Ok(<< mkArea(topRow, MaxInt(origMinCol, removeMaxCol.value + 1),
                               bottomRow, origMaxCol) >>)
        ELSE Ok(<< >>)

subtractSelection(original, toRemove) ==
    LET bottom == subtractBottom(original, toRemove)
        right == subtractRight(original, toRemove)
    IN  IF bottom.thrown # "" THEN bottom
        ELSE IF right.thrown # "" THEN right
        ELSE Ok(subtractTop(original, toRemove) \o bottom.value
                \o subtractLeft(original, toRemove) \o right.value)

\* deselectArea computes the new list; the caller assigns it to this.selections
RECURSIVE deselectFrom(_, _, _)
deselectFrom(sels, i, areaToDeselect) ==
    IF i > Len(sels) THEN Ok(<< >>)
    ELSE LET selection == sels[i]
             head == IF selectionsOverlap(selection, areaToDeselect)
                     THEN subtractSelection(selection, areaToDeselect)
                     ELSE Ok(<< selection >>)
         IN  IF head.thrown # "" THEN head
             ELSE LET rest == deselectFrom(sels, i + 1, areaToDeselect)
                  IN  IF rest.thrown # "" THEN rest
                      ELSE Ok(head.value \o rest.value)

deselectArea(sels, areaToDeselect) == deselectFrom(sels, 1, areaToDeselect)

\* isSelected over an explicit list (this.selections of the caller)
isSelectedIn(sels, cell) ==
    IF \/ cell.row < 0
       \/ cell.col < 0
       \/ (numRows.type # "infinity" /\ cell.row >= numRows.value)
       \/ (numCols.type # "infinity" /\ cell.col >= numCols.value)
    THEN FALSE
    ELSE \E i \in 1..Len(sels) : cellInSelection(cell, sels[i])

isSelected(cell) == isSelectedIn(selections, cell)

hasSelection == Len(selections) > 0

-----------------------------------------------------------------------------
(* Bounding rectangle and non-overlapping decomposition: part_002 lines 1623-1761 *)

RECURSIVE foldMaxMaybeInf(_, _, _)
\* maxRow = this.maxMaybeInf(x, maxRow) over the items of a sequence, in order
foldMaxMaybeInf(items, i, acc) ==
    IF i > Len(items) THEN acc
    ELSE foldMaxMaybeInf(items, i + 1, maxMaybeInf(items[i], acc))

SetMin(S) == CHOOSE x \in S : \A y \in S : x <= y

getSelectionsBoundingRectOf(sels) ==
    IF Len(sels) = 0 THEN Undefined
    ELSE LET idx == 1..Len(sels)
             startRows == {min(sels[i].start.row, sels[i].end.row) : i \in idx}
             startCols == {min(sels[i].start.col, sels[i].end.col) : i \in idx}
             endRows == [i \in idx |->
                 normalizeEndBound(max(sels[i].start.row, sels[i].end.row), numRows)]
             endCols == [i \in idx |->
                 normalizeEndBound(max(sels[i].start.col, sels[i].end.col), numCols)]
         IN  mkArea(SetMin(startRows), SetMin(startCols),
                    foldMaxMaybeInf(endRows, 1, Num(0)),
                    foldMaxMaybeInf(endCols, 1, Num(0)))

getSelectionsBoundingRect == getSelectionsBoundingRectOf(selections)

RECURSIVE sortBoundaries(_)
\* Array.from(set).sort(sort): ascending, "INF" last
sortBoundaries(S) ==
    IF S = {} THEN << >>
    ELSE LET m == CHOOSE x \in S : \A y \in S : x = y \/ sortBefore(x, y)
         IN  << m >> \o sortBoundaries(S \ {m})

\* the exclusive boundary without the + 1 (an off-by-one slip)
exclusiveEndInclusive(e) == IF e.type = "infinity" THEN INF ELSE Num(e.value)

\* sel.endRow.type === "infinity" ? "INF" : sel.endRow.value + 1
exclusiveEnd(e) == IF e.type = "infinity" THEN INF ELSE Num(e.value + 1)

\* typeof endRow === "number" ? {number, endRow - 1} : {infinity}
inclusiveEnd(b) == IF b.type = "number" THEN Num(b.value - 1) ELSE INF

\* the normalised form used by getNonOverlappingSelections (lines 1676-1688)
normalizedForDecomposition(selection) ==
    LET endRow == max(selection.start.row, selection.end.row)
        endCol == max(selection.start.col, selection.end.col)
    IN  [startRow |-> min(selection.start.row, selection.end.row),
         endRow |-> IF endRow.type = "infinity" THEN getActualEndRow ELSE endRow,
         startCol |-> min(selection.start.col, selection.end.col),
         endCol |-> IF endCol.type = "infinity" THEN getActualEndCol ELSE endCol]

\* isCovered of lines 1736-1743
regionCovered(normalizedSelections, regionStartRow, regionEndRow, regionStartCol, regionEndCol) ==
    \E k \in 1..Len(normalizedSelections) :
        LET sel == normalizedSelections[k]
        IN  /\ lte(Num(sel.startRow), regionStartRow)
            /\ gte(sel.endRow, regionEndRow)
            /\ lte(Num(sel.startCol), regionStartCol)
            /\ gte(sel.endCol, regionEndCol)

getNonOverlappingSelectionsOf(sels) ==
    IF Len(sels) = 0 THEN Ok(<< >>)
    ELSE
    LET normalizedSelections == [i \in 1..Len(sels) |-> normalizedForDecomposition(sels[i])]
        idx == 1..Len(sels)
        rowBoundaries == {Num(normalizedSelections[i].startRow) : i \in idx}
                         \cup {exclusiveEnd(normalizedSelections[i].endRow) : i \in idx}
        colBoundaries == {Num(normalizedSelections[i].startCol) : i \in idx}
                         \cup {exclusiveEnd(normalizedSelections[i].endCol) : i \in idx}
        sortedRows == sortBoundaries(rowBoundaries)
        sortedCols == sortBoundaries(colBoundaries)
        nr == Len(sortedRows) - 1
        nc == Len(sortedCols) - 1
        \* the regions in the order of the nested loops (i outer, j inner)
        region(k) ==
            LET i == ((k - 1) \div nc) + 1
                j == ((k - 1) % nc) + 1
            IN  [startRow |-> sortedRows[i], endRow |-> inclusiveEnd(sortedRows[i + 1]),
                 startCol |-> sortedCols[j], endCol |-> inclusiveEnd(sortedCols[j + 1])]
        regions == IF nr <= 0 \/ nc <= 0 THEN << >>
                   ELSE [k \in 1..(nr * nc) |-> region(k)]
        covered(r) == regionCovered(normalizedSelections,
                                    r.startRow, r.endRow, r.startCol, r.endCol)
        kept == SelectSeq(regions, covered)
    IN  IF \E k \in 1..Len(kept) : kept[k].startRow.type = "infinity"
        THEN Throw("Invalid regionStartRow")
        ELSE IF \E k \in 1..Len(kept) : kept[k].startCol.type = "infinity"
        THEN Throw("Invalid regionStartCol")
        ELSE Ok([k \in 1..Len(kept) |->
                 mkArea(kept[k].startRow.value, kept[k].startCol.value,
                        kept[k].endRow, kept[k].endCol)])

getNonOverlappingSelections == getNonOverlappingSelectionsOf(selections)

-----------------------------------------------------------------------------
(* State after construction: part_002 lines 35-49, 74, 90, 101, 121 *)

\* {type: "none"} of IsEditing and IsHovering, with fillers for the absent keys
NoneEditing == [type |-> "none", row |-> 0, col |-> 0, initialValue |-> "undefined"]
NoneHovering ==
    [type |-> "none", row |-> 0, col |-> 0, group |-> NoneSelecting,
     index |-> 0, headerType |-> ""]

\* getState(): the five fields of the live object
getState ==
    [hasFocus |-> hasFocus, selections |-> selections, isSelecting |-> isSelecting,
     isEditing |-> isEditing, isHovering |-> isHovering]

ConstructedState ==
    [hasFocus |-> FALSE, selections |-> << >>, isSelecting |-> NoneSelecting,
     isEditing |-> NoneEditing, isHovering |-> NoneHovering]

NoCall == [name |-> "none", result |-> Ok(<< >>)]

\* nobody holds a state object.  keeps: whether the committed listener keeps
\* the object it is called with
NoSnapshot ==
    [taken |-> FALSE, keeps |-> FALSE, via |-> "none",
     original |-> ConstructedState, now |-> ConstructedState]

\* no cell was pressed yet.  A gesture is a cellMouseDown, the cellMouseEnter
\* calls that follow it without another entry point in between, and the mouseUp
\* that ends them (committed); before is the selection list at the press
\* header is the same for a header press: "pressed" after headerMouseDown,
\* "committed" after the mouseUp that follows it at once, with the index, the
\* type and the options of the press and the selection list at the press
NoHeaderPress ==
    [state |-> "none", index |-> 0, type |-> "row",
     options |-> [shiftKey |-> FALSE, ctrlKey |-> FALSE,
                  metaKey |-> FALSE, isFillHandle |-> FALSE],
     before |-> << >>]

NoGesture ==
    [live |-> FALSE, committed |-> FALSE, pressed |-> Cell(0, 0), last |-> Cell(0, 0),
     entered |-> FALSE, options |-> [shiftKey |-> FALSE, ctrlKey |-> FALSE,
                                     metaKey |-> FALSE, isFillHandle |-> FALSE],
     before |-> << >>, header |-> NoHeaderPress]

\* everything a fresh SelectionManager holds, for a given grid
Constructed(rows, cols) ==
    /\ numRows = rows
    /\ numCols = cols
    /\ hasFocus = FALSE
    /\ selections = << >>
    /\ isSelecting = NoneSelecting
    /\ isEditing = NoneEditing
    /\ isHovering = NoneHovering
    /\ controlled = FALSE
    /\ prevState = ConstructedState
    /\ nextState = ConstructedState
    /\ patches = << >>
    /\ selAlias = 0
    /\ nextStateListeners = << >>
    /\ requestedStateListeners = << >>
    /\ closures = {}
    /\ log = << >>
    /\ fillLog = << >>
    /\ updateLog = << >>
    /\ copyLog = 0
    /\ prevented = FALSE
    /\ thrown = ""
    /\ lastOp = [name |-> "new", a |-> << >>]
    /\ gesture = NoGesture
    /\ steps = 0
    /\ fn = NoCall
    /\ held = NoSnapshot

\* the grids of the model: finite with MaxCoord + 1 rows/columns, or unbounded
FiniteSize == Num(MaxCoord + 1)
GridSizes == {FiniteSize, INF}

\* the end bounds an area can have
EndBounds == {Num(n) : n \in Coords} \cup {INF}

\* every area over the cells of the model, corners in either order
Areas == {mkArea(sr, sc, er, ec) : sr \in Coords, sc \in Coords,
                                   er \in EndBounds, ec \in EndBounds}

RECURSIVE ListsUpTo(_, _)
\* all sequences over S of length at most n
ListsUpTo(S, n) ==
    IF n = 0 THEN {<< >>}
    ELSE LET shorter == ListsUpTo(S, n - 1)
         IN  shorter \cup {Append(l, x) : l \in shorter, x \in S}

-----------------------------------------------------------------------------
(* Fill handle: part_002 lines 235-358, 425-455, 985-1186, 2657-2722 *)

\* this.getGroups().find(group => cellInSelection(cell, group))
findGroupContainingCell(cell) ==
    IF \E i \in 1..Len(groups) : cellInSelection(cell, groups[i])
    THEN groups[CHOOSE i \in 1..Len(groups) :
                    /\ cellInSelection(cell, groups[i])
                    /\ \A j \in 1..(i - 1) : ~cellInSelection(cell, groups[j])]
    ELSE Undefined

\* the normalised form used by getFillHandleBaseSelection (lines 1008-1032)
normalizedForFillBase(selection) ==
    LET endRow == max(selection.start.row, selection.end.row)
        endCol == max(selection.start.col, selection.end.col)
    IN  [startRow |-> min(selection.start.row, selection.end.row),
         endRow |-> IF endRow.type = "infinity"
                    THEN IF numRows.type = "infinity" THEN INF ELSE Num(numRows.value - 1)
                    ELSE endRow,
         startCol |-> min(selection.start.col, selection.end.col),
         endCol |-> IF endCol.type = "infinity"
                    THEN IF numCols.type = "infinity" THEN INF ELSE Num(numCols.value - 1)
                    ELSE endCol]

\* the quick accept of lines 1040-1052 compares sel.endRow and boundingEndRow with
\* ===; both are objects, and boundingEndRow is a fresh object returned by
\* this.max, so the comparison is false for every selection
quickAccept(sel, boundingStartRow, boundingEndRow, boundingStartCol, boundingEndCol) == FALSE

\* isCovered that looks at the rows only
fillRegionCoveredRowsOnly(normalizedSelections, clippedStartRow, clippedEndRow, clippedStartCol, clippedEndCol) ==
    \E k \in 1..Len(normalizedSelections) :
        LET sel == normalizedSelections[k]
        IN  /\ lte(Num(sel.startRow), clippedStartRow)
            /\ (sel.endRow.type = "infinity" \/ gte(sel.endRow, clippedEndRow))

\* isCovered of lines 1158-1173
fillRegionCovered(normalizedSelections, clippedStartRow, clippedEndRow, clippedStartCol, clippedEndCol) ==
    \E k \in 1..Len(normalizedSelections) :
        LET sel == normalizedSelections[k]
        IN  /\ lte(Num(sel.startRow), clippedStartRow)
            /\ (sel.endRow.type = "infinity" \/ gte(sel.endRow, clippedEndRow))
            /\ lte(Num(sel.startCol), clippedStartCol)
            /\ (sel.endCol.type = "infinity" \/ gte(sel.endCol, clippedEndCol))

\* the loops of lines 1084-1179: no region inside the bounding rectangle is left
\* uncovered
allRegionsCovered(normalizedSelections, sortedRows, sortedCols, boundingStartRow, boundingEndRow, boundingStartCol, boundingEndCol) ==
    \A i \in 1..(Len(sortedRows) - 1) : \A j \in 1..(Len(sortedCols) - 1) :
        LET regionStartRow == sortedRows[i]
            regionEndRow == inclusiveEnd(sortedRows[i + 1])
            regionStartCol == sortedCols[j]
            regionEndCol == inclusiveEnd(sortedCols[j + 1])
        IN  \* the two `continue` tests of the row loop
            \/ lt(regionEndRow, Num(boundingStartRow))
            \/ (boundingEndRow.type # "infinity" /\ gt(regionStartRow, boundingEndRow))
            \* the two `continue` tests of the column loop
            \/ lt(regionEndCol, Num(boundingStartCol))
            \/ (boundingEndCol.type # "infinity" /\ gt(regionStartCol, boundingEndCol))
            \/ fillRegionCovered(
                   normalizedSelections,
                   max(boundingStartRow, regionStartRow),
                   IF boundingEndRow.type = "infinity" THEN regionEndRow
                   ELSE Num(min(boundingEndRow.value, regionEndRow)),
                   max(boundingStartCol, regionStartCol),
                   IF boundingEndCol.type = "infinity" THEN regionEndCol
                   ELSE Num(min(boundingEndCol.value, regionEndCol)))

\* lines 1040-1186, for the normalised selections and the bounding rectangle
fillBaseWithin(normalizedSelections, boundingStartRow, boundingEndRow, boundingStartCol, boundingEndCol) ==
    LET idx == 1..Len(normalizedSelections)
        rowBoundaries == {Num(boundingStartRow), exclusiveEnd(boundingEndRow)}
                         \cup {Num(normalizedSelections[i].startRow) : i \in idx}
                         \cup {exclusiveEnd(normalizedSelections[i].endRow) : i \in idx}
        colBoundaries == {Num(boundingStartCol), exclusiveEnd(boundingEndCol)}
                         \cup {Num(normalizedSelections[i].startCol) : i \in idx}
                         \cup {exclusiveEnd(normalizedSelections[i].endCol) : i \in idx}
    IN  IF \/ \E k \in idx : quickAccept(normalizedSelections[k], boundingStartRow,
                                         boundingEndRow, boundingStartCol, boundingEndCol)
           \/ allRegionsCovered(normalizedSelections, sortBoundaries(rowBoundaries),
                                sortBoundaries(colBoundaries), boundingStartRow,
                                boundingEndRow, boundingStartCol, boundingEndCol)
        THEN mkArea(boundingStartRow, boundingStartCol, boundingEndRow, boundingEndCol)
        ELSE Undefined

\* lines 992-1038
fillBaseOf(sels, bounding) ==
    IF bounding.type = "undefined" THEN Undefined
    ELSE fillBaseWithin([i \in 1..Len(sels) |-> normalizedForFillBase(sels[i])],
                        min(bounding.start.row, bounding.end.row),
                        max(bounding.start.row, bounding.end.row),
                        min(bounding.start.col, bounding.end.col),
                        max(bounding.start.col, bounding.end.col))

getFillHandleBaseSelectionOf(sels) ==
    IF Len(sels) = 0 THEN Undefined
    ELSE fillBaseOf(sels, getSelectionsBoundingRectOf(sels))

getFillHandleBaseSelection == getFillHandleBaseSelectionOf(selections)

bottomRightOfSelection(selection) ==
    [row |-> max(selection.start.row, selection.end.row),
     col |-> max(selection.start.col, selection.end.col)]

\* canCellHaveFillHandle without the test of isEditing (lines 429-431 left out)
canCellHaveFillHandleWhileEditing(cell) ==
    IF ~isSelected(cell) THEN FALSE
    ELSE LET baseSelection == getFillHandleBaseSelection
             bottomRight == bottomRightOfSelection(baseSelection)
         IN  IF baseSelection.type = "undefined" THEN FALSE
             ELSE IF bottomRight.row.type = "infinity" \/ bottomRight.col.type = "infinity"
             THEN FALSE
             ELSE bottomRight.row.value = cell.row /\ bottomRight.col.value = cell.col

canCellHaveFillHandle(cell) ==
    IF ~isSelected(cell) THEN FALSE
    ELSE IF isEditing.type # "none" THEN FALSE
    ELSE LET baseSelection == getFillHandleBaseSelection
             bottomRight == bottomRightOfSelection(baseSelection)
         IN  IF baseSelection.type = "undefined" THEN FALSE
             ELSE IF bottomRight.row.type = "infinity" \/ bottomRight.col.type = "infinity"
             THEN FALSE
             ELSE bottomRight.row.value = cell.row /\ bottomRight.col.value = cell.col

\* getFillHandleSelection from line 244 on
fillSelectionFrom(baseSelection, currentCell) ==
    LET minCol == MinInt(currentCell.col, min(baseSelection.start.col, baseSelection.end.col))
        minRow == MinInt(currentCell.row, min(baseSelection.start.row, baseSelection.end.row))
        maxRow == max(currentCell.row, max(baseSelection.start.row, baseSelection.end.row))
        maxCol == max(currentCell.col, max(baseSelection.start.col, baseSelection.end.col))
        rowDiff == AbsInt(currentCell.row - baseSelection.end.row.value)
        colDiff == AbsInt(currentCell.col - baseSelection.end.col.value)
    IN  IF baseSelection.type = "undefined" THEN Undefined
        ELSE IF baseSelection.end.row.type = "infinity"
        THEN mkFill(IF minCol < baseSelection.start.col THEN "left" ELSE "right", "extend",
                    baseSelection.start.row, minCol, maxRow, baseSelection.end.col)
        ELSE IF baseSelection.end.col.type = "infinity"
        THEN mkFill(IF minRow < baseSelection.start.row THEN "up" ELSE "down", "extend",
                    minRow, baseSelection.start.col, maxRow, baseSelection.end.col)
        ELSE IF rowDiff >= colDiff
        THEN IF cellInSelection(currentCell, baseSelection)
             THEN mkFill("up", "shrink", minRow, baseSelection.start.col,
                         Num(currentCell.row), baseSelection.end.col)
             ELSE mkFill(IF minRow < baseSelection.start.row THEN "up" ELSE "down", "extend",
                         minRow, baseSelection.start.col, maxRow, baseSelection.end.col)
        ELSE IF cellInSelection(currentCell, baseSelection)
        THEN mkFill("left", "shrink", baseSelection.start.row, minCol,
                    baseSelection.end.row, Num(currentCell.col))
        ELSE mkFill(IF minCol < baseSelection.start.col THEN "left" ELSE "right", "extend",
                    baseSelection.start.row, minCol, baseSelection.end.row, maxCol)

\* getFillHandleSelection(start, currentCell); the parameter start is never read
getFillHandleSelection(start, currentCell) ==
    fillSelectionFrom(getFillHandleBaseSelection, currentCell)

\* difference(a, b); the fallback returns the object a itself
difference(a, b) ==
    LET aMinRow == min(a.start.row, a.end.row)
        aMaxRow == max(a.start.row, a.end.row)
        aMinCol == min(a.start.col, a.end.col)
        aMaxCol == max(a.start.col, a.end.col)
        bMinRow == min(b.start.row, b.end.row)
        bMaxRow == max(b.start.row, b.end.row)
        bMinCol == min(b.start.col, b.end.col)
        bMaxCol == max(b.start.col, b.end.col)
    IN  IF /\ aMaxRow.type = "number" /\ bMaxRow.type = "number"
           /\ aMaxRow.value > bMaxRow.value /\ aMinRow <= bMaxRow.value
        THEN mkArea(bMaxRow.value + 1, MinInt(aMinCol, bMinCol),
                    aMaxRow, maxMaybeInf(aMaxCol, bMaxCol))
        ELSE IF /\ aMaxCol.type = "number" /\ bMaxCol.type = "number"
                /\ aMaxCol.value > bMaxCol.value /\ aMinCol <= bMaxCol.value
        THEN mkArea(MinInt(aMinRow, bMinRow), bMaxCol.value + 1,
                    maxMaybeInf(aMaxRow, bMaxRow), aMaxCol)
        ELSE IF /\ bMaxRow.type = "number" /\ aMaxRow.type = "number"
                /\ bMaxRow.value > aMaxRow.value
        THEN mkArea(aMaxRow.value + 1, MinInt(aMinCol, bMinCol),
                    bMaxRow, maxMaybeInf(aMaxCol, bMaxCol))
        ELSE IF /\ bMaxCol.type = "number" /\ aMaxCol.type = "number"
                /\ bMaxCol.value > aMaxCol.value
        THEN mkArea(MinInt(aMinRow, bMinRow), aMaxCol.value + 1,
                    maxMaybeInf(aMaxRow, bMaxRow), bMaxCol)
        ELSE a

-----------------------------------------------------------------------------
(* Whole rows and columns: part_002 lines 1330-1440 *)

RECURSIVE getIntervalsFrom(_, _, _, _)
getIntervalsFrom(sels, i, index, type) ==
    IF i > Len(sels) THEN << >>
    ELSE LET selection == sels[i]
             startRow == min(selection.start.row, selection.end.row)
             endRow == max(selection.start.row, selection.end.row)
             startCol == min(selection.start.col, selection.end.col)
             endCol == max(selection.start.col, selection.end.col)
             normalizedEndRow == normalizeEndBound(endRow, numRows)
             normalizedEndCol == normalizeEndBound(endCol, numCols)
             here == IF type = "row"
                     THEN IF /\ startRow <= index
                             /\ (normalizedEndRow.type = "infinity"
                                 \/ index <= normalizedEndRow.value)
                          THEN << [start |-> startCol, end |-> normalizedEndCol] >>
                          ELSE << >>
                     ELSE IF /\ startCol <= index
                             /\ (normalizedEndCol.type = "infinity"
                                 \/ index <= normalizedEndCol.value)
                          THEN << [start |-> startRow, end |-> normalizedEndRow] >>
                          ELSE << >>
         IN  here \o getIntervalsFrom(sels, i + 1, index, type)

getIntervalsForIndex(index, type) == getIntervalsFrom(selections, 1, index, type)

RECURSIVE sortByStart(_)
\* intervals.sort((a, b) => a.start - b.start): stable, ascending by start
sortByStart(intervals) ==
    IF Len(intervals) = 0 THEN << >>
    ELSE LET m == CHOOSE i \in 1..Len(intervals) :
                      /\ \A j \in 1..Len(intervals) : intervals[i].start <= intervals[j].start
                      /\ \A j \in 1..(i - 1) : intervals[j].start # intervals[i].start
             rest == [k \in 1..(Len(intervals) - 1) |->
                         IF k < m THEN intervals[k] ELSE intervals[k + 1]]
         IN  << intervals[m] >> \o sortByStart(rest)

RECURSIVE mergeFromOverlapOnly(_, _, _)
\* merges intervals that overlap but not intervals that only touch (the + 1 of
\* line 1394 left out)
mergeFromOverlapOnly(sorted, i, merged) ==
    IF i > Len(sorted) THEN merged
    ELSE LET current == sorted[i]
             last == merged[Len(merged)]
         IN  IF last.end.type = "infinity" \/ current.start <= last.end.value
             THEN mergeFromOverlapOnly(sorted, i + 1,
                      [merged EXCEPT ![Len(merged)].end = maxMaybeInf(current.end, last.end)])
             ELSE mergeFromOverlapOnly(sorted, i + 1, Append(merged, current))

RECURSIVE mergeFrom(_, _, _)
\* the loop of mergeIntervals (lines 1391-1402)
mergeFrom(sorted, i, merged) ==
    IF i > Len(sorted) THEN merged
    ELSE LET current == sorted[i]
             last == merged[Len(merged)]
         IN  IF last.end.type = "infinity" \/ current.start <= last.end.value + 1
             THEN mergeFrom(sorted, i + 1,
                      [merged EXCEPT ![Len(merged)].end = maxMaybeInf(current.end, last.end)])
             ELSE mergeFrom(sorted, i + 1, Append(merged, current))

mergeIntervals(intervals) ==
    IF Len(intervals) = 0 THEN << >>
    ELSE LET sorted == sortByStart(intervals)
         IN  mergeFrom(sorted, 2, << sorted[1] >>)

intervalsSpanFullRange(intervals, maxValue) ==
    IF Len(intervals) # 1 THEN FALSE
    ELSE LET interval == intervals[1]
         IN  IF maxValue.type = "infinity"
             THEN interval.start = 0 /\ interval.end.type = "infinity"
             ELSE interval.start = 0 /\ gte(interval.end, Num(maxValue.value - 1))

isWholeRowSelected(index) ==
    intervalsSpanFullRange(mergeIntervals(getIntervalsForIndex(index, "row")), numCols)

isWholeColSelected(index) ==
    intervalsSpanFullRange(mergeIntervals(getIntervalsForIndex(index, "col")), numRows)

-----------------------------------------------------------------------------
(* Event handlers, up to the call of onUpdate: what each one leaves in the   *)
(* five live fields.  An outcome records                                     *)
(*   state   the live fields when the handler reaches its end                *)
(*   update  whether the handler calls this.onUpdate()                       *)
(*   inPlace whether this.selections is still the array object it was when   *)
(*           the handler began (splice, push and length = 0 keep the object, *)
(*           deselectArea assigns a new one)                                 *)
(*   fill    the FillEvents passed to triggerEvent                           *)
(*   thrown  the message of the Error that ended the handler, or ""          *)

Outcome(state, update, inPlace) ==
    [state |-> state, update |-> update, inPlace |-> inPlace, fill |-> << >>, thrown |-> "",
     prevented |-> FALSE, copies |-> 0, updates |-> << >>]

endAt(row, col) == [row |-> Num(row), col |-> Num(col)]

\* options of cellMouseDown and headerMouseDown
Options(shiftKey, ctrlKey, metaKey, isFillHandle) ==
    [shiftKey |-> shiftKey, ctrlKey |-> ctrlKey, metaKey |-> metaKey,
     isFillHandle |-> isFillHandle]

\* the toggle branch tests cmdKey before the clear-and-drag branch (a slip that
\* lets the extend modifier lose against the toggle modifier)
pressWithToggleFirst(row, col, options, fillHandleSelection) ==
    LET cmdKey == options.metaKey \/ options.ctrlKey
        lastSelection == selections[Len(selections)]
    IN  IF options.isFillHandle /\ fillHandleSelection.type # "undefined"
        THEN Outcome([getState EXCEPT !.isSelecting = fillHandleSelection], TRUE, TRUE)
        ELSE IF cmdKey
        THEN Outcome([getState EXCEPT !.isSelecting =
                         mkSelecting(IF isSelected(Cell(row, col)) THEN "remove" ELSE "add",
                                     Cell(row, col), endAt(row, col))], TRUE, TRUE)
        ELSE IF options.shiftKey /\ Len(selections) > 0
        THEN Outcome([getState EXCEPT
                         !.selections = SubSeq(selections, 1, Len(selections) - 1),
                         !.isSelecting = [lastSelection EXCEPT !.type = "shift",
                                                               !.end = endAt(row, col)]],
                     TRUE, TRUE)
        ELSE Outcome([getState EXCEPT
                         !.isSelecting = mkSelecting("drag", Cell(row, col), endAt(row, col)),
                         !.selections = << >>], TRUE, TRUE)

\* cellMouseDown from line 148 on: fillHandleSelection is what line 141 computed
\* (it is read only when options.isFillHandle)
press(row, col, options, fillHandleSelection) ==
    LET cmdKey == options.metaKey \/ options.ctrlKey
        lastSelection == selections[Len(selections)]
    IN  IF options.isFillHandle /\ fillHandleSelection.type # "undefined"
        THEN Outcome([getState EXCEPT !.isSelecting = fillHandleSelection], TRUE, TRUE)
        ELSE IF options.shiftKey /\ Len(selections) > 0
        THEN Outcome([getState EXCEPT
                         !.selections = SubSeq(selections, 1, Len(selections) - 1),
                         !.isSelecting = [lastSelection EXCEPT !.type = "shift",
                                                               !.end = endAt(row, col)]],
                     TRUE, TRUE)
        ELSE IF cmdKey
        THEN Outcome([getState EXCEPT !.isSelecting =
                         mkSelecting(IF isSelected(Cell(row, col)) THEN "remove" ELSE "add",
                                     Cell(row, col), endAt(row, col))], TRUE, TRUE)
        ELSE Outcome([getState EXCEPT
                         !.isSelecting = mkSelecting("drag", Cell(row, col), endAt(row, col)),
                         !.selections = << >>], TRUE, TRUE)

cellMouseDown(row, col, options) ==
    press(row, col, options, getFillHandleSelection(Cell(row, col), Cell(row, col)))

hoveringCell(row, col) == [NoneHovering EXCEPT !.type = "cell", !.row = row, !.col = col]
hoveringGroup(group) == [NoneHovering EXCEPT !.type = "group", !.group = group]
hoveringHeader(index, type) ==
    [NoneHovering EXCEPT !.type = "header", !.index = index, !.headerType = type]

\* cellMouseEnter once the fill selection (line 364, read only during a fill) and
\* the group under the cell (line 381) are known
enter(row, col, fillHandleSelection, group) ==
    Outcome([getState EXCEPT
                !.isSelecting =
                    IF isSelecting.type = "none" THEN isSelecting
                    ELSE IF isSelecting.type = "fill"
                    THEN IF fillHandleSelection.type # "undefined" THEN fillHandleSelection
                         ELSE isSelecting
                    ELSE [isSelecting EXCEPT !.end = endAt(row, col)],
                !.isHovering = IF group.type # "undefined" THEN hoveringGroup(group)
                               ELSE hoveringCell(row, col)], TRUE, TRUE)

cellMouseEnter(row, col) ==
    enter(row, col, getFillHandleSelection(isSelecting.start, Cell(row, col)),
          findGroupContainingCell(Cell(row, col)))

editingCell(row, col, initialValue) ==
    [type |-> "cell", row |-> row, col |-> col, initialValue |-> initialValue]

editCell(row, col, initialValue) ==
    LET shouldUpdate == \/ isEditing.type # "cell"
                        \/ isEditing.row # row
                        \/ isEditing.col # col
                        \/ isEditing.initialValue # initialValue
    IN  IF shouldUpdate
        THEN Outcome([getState EXCEPT !.isEditing = editingCell(row, col, initialValue)],
                     TRUE, TRUE)
        ELSE Outcome(getState, FALSE, TRUE)

cancelEditing ==
    IF isEditing.type = "cell"
    THEN Outcome([getState EXCEPT !.isEditing = NoneEditing], TRUE, TRUE)
    ELSE Outcome(getState, FALSE, TRUE)

cancelSelection == Outcome([getState EXCEPT !.isSelecting = NoneSelecting], TRUE, TRUE)

cancelHovering == Outcome([getState EXCEPT !.isHovering = NoneHovering], TRUE, TRUE)

focus ==
    LET prev == hasFocus
    IN  Outcome([getState EXCEPT !.hasFocus = TRUE], prev # TRUE, TRUE)

blur ==
    LET prev == hasFocus
    IN  Outcome([getState EXCEPT !.hasFocus = FALSE], prev # FALSE, TRUE)

\* the far end is the last index the model names, whatever the grid
headerSelectingToLastIndex(index, type, selectingType) ==
    IF type = "row"
    THEN mkSelecting(selectingType, Cell(index, 0),
                     [row |-> Num(index), col |-> Num(MaxCoord)])
    ELSE mkSelecting(selectingType, Cell(0, index),
                     [row |-> Num(MaxCoord), col |-> Num(index)])

\* defaultIsSelecting of headerMouseDown (lines 470-484), with the type it ends with
headerSelecting(index, type, selectingType) ==
    IF type = "row"
    THEN mkSelecting(selectingType, Cell(index, 0),
                     [row |-> Num(index), col |-> getActualEndCol])
    ELSE mkSelecting(selectingType, Cell(0, index),
                     [row |-> getActualEndRow, col |-> Num(index)])

\* the toggle branch looks at the anchor cell of the line, not at the whole line
headerMouseDownByAnchor(index, type, options) ==
    LET lastSelection == selections[Len(selections)]
        cmdKey == options.metaKey \/ options.ctrlKey
    IN  IF options.shiftKey /\ Len(selections) > 0
        THEN Outcome([getState EXCEPT
                         !.selections = SubSeq(selections, 1, Len(selections) - 1),
                         !.isSelecting =
                             [lastSelection EXCEPT
                                 !.type = "shift",
                                 !.end = IF type = "row"
                                         THEN [row |-> Num(index), col |-> getActualEndCol]
                                         ELSE [row |-> getActualEndRow, col |-> Num(index)]]],
                     TRUE, TRUE)
        ELSE IF cmdKey
        THEN LET newType == IF type = "row"
                            THEN IF isSelected(Cell(index, 0)) THEN "remove" ELSE "add"
                            ELSE IF isSelected(Cell(0, index)) THEN "remove" ELSE "add"
             IN  Outcome([getState EXCEPT !.isSelecting = headerSelecting(index, type, newType)],
                         TRUE, TRUE)
        ELSE Outcome([getState EXCEPT
                         !.isSelecting = headerSelecting(index, type, "drag"),
                         !.selections = << >>], TRUE, TRUE)

headerMouseDown(index, type, options) ==
    LET lastSelection == selections[Len(selections)]
        cmdKey == options.metaKey \/ options.ctrlKey
    IN  IF options.shiftKey /\ Len(selections) > 0
        THEN Outcome([getState EXCEPT
                         !.selections = SubSeq(selections, 1, Len(selections) - 1),
                         !.isSelecting =
                             [lastSelection EXCEPT
                                 !.type = "shift",
                                 !.end = IF type = "row"
                                         THEN [row |-> Num(index), col |-> getActualEndCol]
                                         ELSE [row |-> getActualEndRow, col |-> Num(index)]]],
                     TRUE, TRUE)
        ELSE IF cmdKey
        THEN LET newType == IF type = "row"
                            THEN IF isWholeRowSelected(index) THEN "remove" ELSE "add"
                            ELSE IF isWholeColSelected(index) THEN "remove" ELSE "add"
             IN  Outcome([getState EXCEPT !.isSelecting = headerSelecting(index, type, newType)],
                         TRUE, TRUE)
        ELSE Outcome([getState EXCEPT
                         !.isSelecting = headerSelecting(index, type, "drag"),
                         !.selections = << >>], TRUE, TRUE)

\* headerMouseEnter from line 525 on
enterHeader(index, type, fillHandleBaseSelection) ==
    LET hasBase == fillHandleBaseSelection.type # "undefined"
        selecting ==
            IF isSelecting.type = "none" THEN isSelecting
            ELSE [isSelecting EXCEPT
                     !.start = IF hasBase THEN fillHandleBaseSelection.start ELSE @,
                     !.end = IF type = "row"
                             THEN [row |-> IF hasBase THEN fillHandleBaseSelection.end.row
                                           ELSE Num(index),
                                   col |-> getActualEndCol]
                             ELSE [row |-> getActualEndRow,
                                   col |-> IF hasBase THEN fillHandleBaseSelection.end.col
                                           ELSE Num(index)]]
    IN  Outcome([getState EXCEPT !.isSelecting = selecting,
                                 !.isHovering = hoveringHeader(index, type)], TRUE, TRUE)

headerMouseEnter(index, type) == enterHeader(index, type, getFillHandleBaseSelection)

\* FillEvent, with fillers for the keys a variant does not have
shrinkEvent(rangeToClear) ==
    [type |-> "shrink", rangeToClear |-> rangeToClear, seedRange |-> NoneSelecting,
     fillRange |-> NoneSelecting, direction |-> "", outputRange |-> NoneSelecting]

extendEvent(seedRange, fillRange, direction, type, outputRange) ==
    [type |-> type, rangeToClear |-> NoneSelecting, seedRange |-> seedRange,
     fillRange |-> fillRange, direction |-> direction, outputRange |-> outputRange]

\* the Remove branch keeps the selections as they are (a commit that forgets to
\* deselect)
\* a mouseUp that forgets to reset this.isSelecting
releasedStillSelecting(sels) == [getState EXCEPT !.selections = sels]

\* this.isSelecting = {type: "none"} with this.selections as given (line 2773)
released(sels) == [getState EXCEPT !.isSelecting = NoneSelecting, !.selections = sels]

\* a push of the pressed cell alone, whatever cell was entered since
pushedAnchorOnly ==
    Append(selections,
           plainArea(isSelecting.start, endAt(isSelecting.start.row, isSelecting.start.col)))

\* this.selections.push({start: this.isSelecting.start, end: this.isSelecting.end})
pushed == Append(selections, plainArea(isSelecting.start, isSelecting.end))

\* the shrink branch (lines 2736-2746), deselected being what deselectArea computed
commitShrink(fillHandleBaseSelection, deselected) ==
    IF deselected.thrown # ""
    THEN [Outcome(getState, FALSE, TRUE) EXCEPT !.thrown = deselected.thrown]
    ELSE [Outcome(released(Append(deselected.value, isSelecting)), TRUE, FALSE) EXCEPT
             !.fill = << shrinkEvent(difference(fillHandleBaseSelection, isSelecting)) >>]

\* the fill branch (lines 2730-2763)
commitFill(fillHandleBaseSelection) ==
    IF fillHandleBaseSelection.type = "undefined"
    THEN Outcome(released(selections), TRUE, TRUE)
    ELSE IF isSelecting.eventType = "shrink"
    THEN commitShrink(fillHandleBaseSelection,
                      deselectArea(selections, fillHandleBaseSelection))
    ELSE [Outcome(released(pushed), TRUE, TRUE) EXCEPT
             !.fill = << extendEvent(fillHandleBaseSelection,
                                     difference(isSelecting, fillHandleBaseSelection),
                                     isSelecting.direction, isSelecting.eventType,
                                     isSelecting) >>]

\* a Remove branch that drops every selection the removed area overlaps instead
\* of splitting it
commitRemoveDropsWhole(deselected) ==
    Outcome(released(SelectSeq(selections,
                               LAMBDA s : ~selectionsOverlap(s, isSelecting))),
            TRUE, FALSE)

\* the Remove branch (line 2765), deselected being what deselectArea computed
commitRemove(deselected) ==
    IF deselected.thrown # ""
    THEN [Outcome(getState, FALSE, TRUE) EXCEPT !.thrown = deselected.thrown]
    ELSE Outcome(released(deselected.value), TRUE, FALSE)

mouseUp ==
    IF isSelecting.type = "none" THEN Outcome(released(selections), TRUE, TRUE)
    ELSE IF isSelecting.type = "fill" THEN commitFill(getFillHandleBaseSelection)
    ELSE IF isSelecting.type = "remove"
    THEN commitRemove(deselectArea(selections, isSelecting))
    ELSE Outcome(released(pushed), TRUE, TRUE)

\* a KeyboardEvent, as far as handleKeyDown reads it
KeyboardEvent(key, shiftKey, ctrlKey, metaKey) ==
    [key |-> key, shiftKey |-> shiftKey, ctrlKey |-> ctrlKey, metaKey |-> metaKey]

\* the Escape branch without the reset of hasFocus (lines 1797-1800 left out)
escapeKeyKeepsFocus ==
    IF isEditing.type = "cell" THEN cancelEditing
    ELSE Outcome([getState EXCEPT !.isSelecting = NoneSelecting,
                                  !.selections = << >>,
                                  !.isEditing = NoneEditing],
                 isSelecting.type # "none" \/ Len(selections) > 0 \/ hasFocus,
                 FALSE)

\* handleKeyDown with event.key === "Escape" (lines 1766-1804): a cell being
\* edited is closed by cancelEditing() and nothing else happens; otherwise
\* this.selections becomes a new empty array and onUpdate() is called if
\* anything was there to clear
escapeKey ==
    IF isEditing.type = "cell" THEN cancelEditing
    ELSE Outcome([getState EXCEPT !.isSelecting = NoneSelecting,
                                  !.selections = << >>,
                                  !.isEditing = NoneEditing,
                                  !.hasFocus = FALSE],
                 isSelecting.type # "none" \/ Len(selections) > 0 \/ hasFocus,
                 FALSE)

\* the callbacks registered with listenToCopy and with listenToUpdateData
listenToCopyListeners == << "copy1" >>
listenToUpdateDataListeners == << "data1", "data2" >>

\* event.metaKey || event.ctrlKey
cmdKey(event) == event.metaKey \/ event.ctrlKey

ArrowKeys == {"ArrowUp", "ArrowDown", "ArrowLeft", "ArrowRight"}

\* numRows.type === "infinity" ? {type: "infinity"} : {type: "number", value: numRows.value - 1}
lastIndex(size) == IF size.type = "infinity" THEN INF ELSE Num(size.value - 1)

\* getCellsWithData(area): the cells row by row, or the error for an Infinite end
getCellsWithData(area) ==
    IF area.end.row.type = "infinity" \/ area.end.col.type = "infinity"
    THEN Throw("Cannot iterate over infinite selections")
    ELSE LET rows == IF area.end.row.value < area.start.row THEN 0
                     ELSE area.end.row.value - area.start.row + 1
             cols == IF area.end.col.value < area.start.col THEN 0
                     ELSE area.end.col.value - area.start.col + 1
         IN  Ok([k \in 1..(rows * cols) |->
                    [rowIndex |-> area.start.row + ((k - 1) \div cols),
                     colIndex |-> area.start.col + ((k - 1) % cols)]])

RECURSIVE collectUpdates(_, _, _)
\* the forEach of clearSelectedCells over the decomposed selections
collectUpdates(list, i, updates) ==
    IF i > Len(list) THEN Ok(updates)
    ELSE LET cells == getCellsWithData(list[i])
         IN  IF cells.thrown # "" THEN cells
             ELSE collectUpdates(list, i + 1,
                      updates \o [k \in 1..Len(cells.value) |->
                                     [rowIndex |-> cells.value[k].rowIndex,
                                      colIndex |-> cells.value[k].colIndex,
                                      value |-> ""]])

\* saveCellValues(updates): every listener is handed the same batch
saveCellValues(updates) ==
    [k \in 1..Len(listenToUpdateDataListeners) |->
        [listener |-> listenToUpdateDataListeners[k], updates |-> updates]]

\* this.saveCellValues(updates) of line 2179, reached if the forEach did not throw
savedUpdates(updates) ==
    IF updates.thrown # "" THEN updates ELSE Ok(saveCellValues(updates.value))

\* a clearSelectedCells that walks the selections as they are, not decomposed
clearSelectedCellsAsListed == savedUpdates(collectUpdates(selections, 1, << >>))

\* clearSelectedCells with what getNonOverlappingSelections() returned
clearDecomposed(decomposed) ==
    IF decomposed.thrown # "" THEN decomposed
    ELSE savedUpdates(collectUpdates(decomposed.value, 1, << >>))

\* clearSelectedCells(): the calls made to the cell-update listeners, or the error
clearSelectedCells == clearDecomposed(getNonOverlappingSelections)

\* the result of forEachSelectedCell: the calls made to the callback and the
\* error, if one was thrown
Iterated(calls, msg) == [thrown |-> msg, calls |-> calls]

RECURSIVE forEachCellFrom(_, _, _, _)
\* selections.forEach(...) of forEachSelectedCell (lines 2214-2241)
forEachCellFrom(list, i, boundingRect, calls) ==
    IF i > Len(list) THEN Iterated(calls, "")
    ELSE LET cells == getCellsWithData(list[i])
         IN  IF cells.thrown # "" THEN Iterated(calls, cells.thrown)
             ELSE forEachCellFrom(list, i + 1, boundingRect,
                      calls \o [k \in 1..Len(cells.value) |->
                          [absolute |-> Cell(cells.value[k].rowIndex,
                                             cells.value[k].colIndex),
                           relative |-> Cell(cells.value[k].rowIndex
                                                 - boundingRect.start.row,
                                             cells.value[k].colIndex
                                                 - boundingRect.start.col)]])

\* forEachSelectedCell without the checks of lines 2196-2212
forEachSelectedCellUnchecked(decomposed, boundingRect) ==
    IF decomposed.thrown # "" THEN Iterated(<< >>, decomposed.thrown)
    ELSE IF boundingRect.type = "undefined" THEN Iterated(<< >>, "")
    ELSE forEachCellFrom(decomposed.value, 1, boundingRect, << >>)

\* forEachSelectedCell(callback), with what getNonOverlappingSelections() and
\* getSelectionsBoundingRect() returned
forEachSelectedCellOf(decomposed, boundingRect) ==
    IF decomposed.thrown # "" THEN Iterated(<< >>, decomposed.thrown)
    ELSE IF boundingRect.type = "undefined" THEN Iterated(<< >>, "")
    ELSE IF \/ boundingRect.end.row.type = "infinity"
            \/ boundingRect.end.col.type = "infinity"
    THEN Iterated(<< >>, "Cannot iterate over infinite selections")
    ELSE IF \E i \in 1..Len(decomposed.value) :
                \/ decomposed.value[i].end.row.type = "infinity"
                \/ decomposed.value[i].end.col.type = "infinity"
    THEN Iterated(<< >>, "Cannot iterate over infinite selections")
    ELSE forEachCellFrom(decomposed.value, 1, boundingRect, << >>)

forEachSelectedCell ==
    forEachSelectedCellOf(getNonOverlappingSelections, getSelectionsBoundingRect)

\* a handler that changed no field and did not call onUpdate()
unchanged == Outcome(getState, FALSE, TRUE)

\* Ctrl/Cmd+C (lines 1811-1820)
copyKey ==
    IF hasSelection
    THEN [unchanged EXCEPT !.prevented = TRUE, !.copies = Len(listenToCopyListeners)]
    ELSE unchanged

\* what follows event.preventDefault() for Delete and Backspace (lines 1836-1837)
clearedWith(out, calls) ==
    IF calls.thrown # "" THEN [out EXCEPT !.thrown = calls.thrown]
    ELSE [out EXCEPT !.updates = calls.value]

cleared(out) == clearedWith(out, clearSelectedCells)

\* Ctrl/Cmd+X (lines 1822-1832)
cutKey ==
    IF hasSelection
    THEN cleared([unchanged EXCEPT !.prevented = TRUE,
                                   !.copies = Len(listenToCopyListeners)])
    ELSE unchanged

\* Delete and Backspace (lines 1834-1840)
deleteKey ==
    IF hasSelection THEN cleared([unchanged EXCEPT !.prevented = TRUE]) ELSE unchanged

\* evaluateCell of getTopLeftCellInSelection
evaluateCell(minCell, row, col) ==
    IF row.type = "infinity" \/ col.type = "infinity" THEN minCell
    ELSE IF minCell.type = "undefined"
    THEN [type |-> "cell", row |-> row.value, col |-> col.value]
    ELSE IF col.value < minCell.col
    THEN [type |-> "cell", row |-> row.value, col |-> col.value]
    ELSE IF col.value = minCell.col /\ row.value < minCell.row
    THEN [type |-> "cell", row |-> row.value, col |-> col.value]
    ELSE minCell

RECURSIVE topLeftFrom(_, _)
topLeftFrom(i, minCell) ==
    IF i > Len(selections) THEN minCell
    ELSE topLeftFrom(i + 1,
             evaluateCell(evaluateCell(minCell, Num(selections[i].start.row),
                                       Num(selections[i].start.col)),
                          selections[i].end.row, selections[i].end.col))

\* getTopLeftCellInSelection()
getTopLeftCellInSelection == topLeftFrom(1, Undefined)

\* F2 (lines 1842-1848)
f2Key ==
    LET cell == getTopLeftCellInSelection
    IN  IF cell.type = "undefined" THEN unchanged
        ELSE editCell(cell.row, cell.col, "undefined")

\* this.selections with the end of the last selection written in place
withLastEnd(row, col) ==
    [selections EXCEPT ![Len(selections)].end = [row |-> row, col |-> col]]

\* Ctrl/Cmd+Shift+Arrow (lines 1850-1907)
edgeKey(key) ==
    LET lastSelection == selections[Len(selections)]
        end == lastSelection.end
        maxRow == lastIndex(numRows)
        maxCol == lastIndex(numCols)
    IN  IF Len(selections) = 0 THEN unchanged
        ELSE IF key = "ArrowUp" /\ gt(end.row, Num(0))
        THEN Outcome([getState EXCEPT !.selections = withLastEnd(Num(0), end.col)],
                     TRUE, TRUE)
        ELSE IF key = "ArrowDown" /\ lt(end.row, maxRow)
        THEN Outcome([getState EXCEPT !.selections = withLastEnd(maxRow, end.col)],
                     TRUE, TRUE)
        ELSE IF key = "ArrowLeft" /\ gt(end.col, Num(0))
        THEN Outcome([getState EXCEPT !.selections = withLastEnd(end.row, Num(0))],
                     TRUE, TRUE)
        ELSE IF key = "ArrowRight" /\ lt(end.col, maxCol)
        THEN Outcome([getState EXCEPT !.selections = withLastEnd(end.row, maxCol)],
                     TRUE, TRUE)
        ELSE unchanged

\* the whole grid as one area
wholeGrid == mkArea(0, 0, lastIndex(numRows), lastIndex(numCols))

\* Ctrl/Cmd+A that selects again what is selected already
selectAllKeyAlways ==
    [Outcome([getState EXCEPT !.selections = << wholeGrid >>], TRUE, FALSE)
        EXCEPT !.prevented = TRUE]

\* Ctrl/Cmd+A (lines 1909-1956)
selectAllKey ==
    IF \E i \in 1..Len(selections) :
           /\ selections[i].start.row = 0
           /\ selections[i].start.col = 0
           /\ equals(selections[i].end.row, lastIndex(numRows))
           /\ equals(selections[i].end.col, lastIndex(numCols))
    THEN unchanged
    ELSE [Outcome([getState EXCEPT !.selections = << wholeGrid >>], TRUE, FALSE)
             EXCEPT !.prevented = TRUE]

\* the step of an arrow key from an index (lines 1996-2044): moved says whether
\* a new object was made, which is what newRow !== currentRow asks
stepBack(current) ==
    IF gt(current, Num(0))
    THEN [moved |-> TRUE,
          to |-> IF current.type = "number" THEN Num(current.value - 1) ELSE INF]
    ELSE [moved |-> FALSE, to |-> current]

\* an arrow step that does not look at the size of the grid
stepForwardUnbounded(current, size) ==
    [moved |-> TRUE,
     to |-> IF current.type = "number" THEN Num(current.value + 1) ELSE INF]

stepForward(current, size) ==
    IF lt(current, lastIndex(size))
    THEN [moved |-> TRUE,
          to |-> IF current.type = "number" THEN Num(current.value + 1) ELSE INF]
    ELSE [moved |-> FALSE, to |-> current]

\* the arrow block with key and shiftKey as Enter and Tab leave them
\* (lines 1972-2072)
arrowKey(key, shiftKey) ==
    LET hasLast == Len(selections) > 0
        lastSelection == selections[Len(selections)]
        currentRow == IF hasLast
                      THEN IF shiftKey THEN lastSelection.end.row
                           ELSE Num(lastSelection.start.row)
                      ELSE Num(0)
        currentCol == IF hasLast
                      THEN IF shiftKey THEN lastSelection.end.col
                           ELSE Num(lastSelection.start.col)
                      ELSE Num(0)
        row == IF key = "ArrowUp" THEN stepBack(currentRow)
               ELSE IF key = "ArrowDown" THEN stepForward(currentRow, numRows)
               ELSE [moved |-> FALSE, to |-> currentRow]
        col == IF key = "ArrowLeft" THEN stepBack(currentCol)
               ELSE IF key = "ArrowRight" THEN stepForward(currentCol, numCols)
               ELSE [moved |-> FALSE, to |-> currentCol]
    IN  IF ~(row.moved \/ col.moved) THEN unchanged
        ELSE IF shiftKey /\ hasLast
        THEN [Outcome([getState EXCEPT !.selections = withLastEnd(row.to, col.to)],
                      TRUE, TRUE) EXCEPT !.prevented = TRUE]
        ELSE IF row.to.type = "infinity" \/ col.to.type = "infinity"
        THEN [unchanged EXCEPT !.thrown = "Invalid newRow or newCol"]
        ELSE [Outcome([getState EXCEPT
                          !.selections = << mkArea(row.to.value, col.to.value,
                                                   row.to, col.to) >>],
                      TRUE, FALSE) EXCEPT !.prevented = TRUE]

\* Enter, Tab and the arrow keys (lines 1958-2073)
navigationKey(event) ==
    IF event.key = "Enter"
    THEN arrowKey(IF event.shiftKey THEN "ArrowUp" ELSE "ArrowDown", FALSE)
    ELSE IF event.key = "Tab"
    THEN arrowKey(IF event.shiftKey THEN "ArrowLeft" ELSE "ArrowRight", FALSE)
    ELSE IF event.key \in ArrowKeys THEN arrowKey(event.key, event.shiftKey)
    ELSE unchanged

\* handleKeyDown without the return of lines 1806-1808
handleKeyDownWhileEditing(event) ==
    IF event.key = "Escape" THEN escapeKey
    ELSE IF cmdKey(event) /\ event.key \in {"c", "C"} THEN copyKey
    ELSE IF event.key \in {"Delete", "Backspace"} THEN deleteKey
    ELSE navigationKey(event)

\* handleKeyDown(event) (lines 1763-2074)
handleKeyDown(event) ==
    IF event.key = "Escape" THEN escapeKey
    ELSE IF isEditing.type = "cell" THEN unchanged
    ELSE IF cmdKey(event) /\ event.key \in {"c", "C"} THEN copyKey
    ELSE IF cmdKey(event) /\ event.key \in {"x", "X"} THEN cutKey
    ELSE IF event.key \in {"Delete", "Backspace"} THEN deleteKey
    ELSE IF event.key = "F2" THEN f2Key
    ELSE IF cmdKey(event) /\ event.shiftKey /\ event.key \in ArrowKeys
    THEN edgeKey(event.key)
    ELSE IF cmdKey(event) /\ event.key \in {"a", "A"} THEN selectAllKey
    ELSE navigationKey(event)

-----------------------------------------------------------------------------
(* Patches: part_000 lines 8-284.  A path is kept as the parts path.split("/") *)
(* yields: the root property and, for "selections/-" and "selections/<i>",     *)
(* the second part ("-" or the index parseInt reads).                          *)

rootPath(root) == [root |-> root, rest |-> "", index |-> 0]
endPath == [root |-> "selections", rest |-> "-", index |-> 0]
indexPath(i) == [root |-> "selections", rest |-> "index", index |-> i]

Patch(op, path, value) == [op |-> op, path |-> path, value |-> value]

\* deepEqual: JSON.stringify(a) === JSON.stringify(b)
deepEqual(a, b) == a = b

\* the index (from 0) of the first previous selection that no next selection equals, or -1
removedIndexOf(prevSelections, nextSelections) ==
    LET isRemoved(i) == ~ \E k \in 1..Len(nextSelections) :
                              deepEqual(nextSelections[k], prevSelections[i])
    IN  IF \E i \in 1..Len(prevSelections) : isRemoved(i)
        THEN (CHOOSE i \in 1..Len(prevSelections) :
                  isRemoved(i) /\ \A j \in 1..(i - 1) : ~isRemoved(j)) - 1
        ELSE 0 - 1

\* the selections diff with a removal that is emitted as soon as a removed index
\* is found, the verification of lines 110-117 left out
selectionPatchesUnverified(prevSelections, nextSelections) ==
    IF deepEqual(prevSelections, nextSelections) THEN << >>
    ELSE IF Len(nextSelections) = 0 /\ Len(prevSelections) > 0
    THEN << Patch("replace", rootPath("selections"), << >>) >>
    ELSE IF /\ Len(nextSelections) = Len(prevSelections) + 1
            /\ \A i \in 1..Len(prevSelections) :
                   deepEqual(prevSelections[i], nextSelections[i])
    THEN << Patch("add", endPath, nextSelections[Len(nextSelections)]) >>
    ELSE IF Len(nextSelections) = Len(prevSelections) - 1 /\ Len(prevSelections) > 0
    THEN LET removedIndex == removedIndexOf(prevSelections, nextSelections)
         IN  IF removedIndex # 0 - 1
             THEN << Patch("remove", indexPath(removedIndex), << >>) >>
             ELSE << Patch("replace", rootPath("selections"), nextSelections) >>
    ELSE << Patch("replace", rootPath("selections"), nextSelections) >>

\* the patches for the selections (lines 79-136)
selectionPatches(prevSelections, nextSelections) ==
    IF deepEqual(prevSelections, nextSelections) THEN << >>
    ELSE IF Len(nextSelections) = 0 /\ Len(prevSelections) > 0
    THEN << Patch("replace", rootPath("selections"), << >>) >>
    ELSE IF /\ Len(nextSelections) = Len(prevSelections) + 1
            /\ \A i \in 1..Len(prevSelections) :
                   deepEqual(prevSelections[i], nextSelections[i])
    THEN << Patch("add", endPath, nextSelections[Len(nextSelections)]) >>
    ELSE IF Len(nextSelections) = Len(prevSelections) - 1 /\ Len(prevSelections) > 0
    THEN LET removedIndex == removedIndexOf(prevSelections, nextSelections)
             matches == \A i \in 1..Len(nextSelections) :
                            deepEqual(nextSelections[i],
                                      prevSelections[IF i - 1 < removedIndex
                                                     THEN i ELSE i + 1])
         IN  IF removedIndex # 0 - 1 /\ matches
             THEN << Patch("remove", indexPath(removedIndex), << >>) >>
             ELSE << Patch("replace", rootPath("selections"), nextSelections) >>
    ELSE << Patch("replace", rootPath("selections"), nextSelections) >>

\* the five checks with isEditing looked at before isSelecting
createPatchesEditingFirst(prev, next) ==
    (IF prev.hasFocus # next.hasFocus
     THEN << Patch("replace", rootPath("hasFocus"), next.hasFocus) >> ELSE << >>)
    \o selectionPatches(prev.selections, next.selections)
    \o (IF ~deepEqual(prev.isEditing, next.isEditing)
        THEN << Patch("replace", rootPath("isEditing"), next.isEditing) >> ELSE << >>)
    \o (IF ~deepEqual(prev.isSelecting, next.isSelecting)
        THEN << Patch("replace", rootPath("isSelecting"), next.isSelecting) >> ELSE << >>)
    \o (IF ~deepEqual(prev.isHovering, next.isHovering)
        THEN << Patch("replace", rootPath("isHovering"), next.isHovering) >> ELSE << >>)

\* createPatches(prevState, nextState) (lines 67-154)
createPatches(prev, next) ==
    (IF prev.hasFocus # next.hasFocus
     THEN << Patch("replace", rootPath("hasFocus"), next.hasFocus) >> ELSE << >>)
    \o selectionPatches(prev.selections, next.selections)
    \o (IF ~deepEqual(prev.isSelecting, next.isSelecting)
        THEN << Patch("replace", rootPath("isSelecting"), next.isSelecting) >> ELSE << >>)
    \o (IF ~deepEqual(prev.isEditing, next.isEditing)
        THEN << Patch("replace", rootPath("isEditing"), next.isEditing) >> ELSE << >>)
    \o (IF ~deepEqual(prev.isHovering, next.isHovering)
        THEN << Patch("replace", rootPath("isHovering"), next.isHovering) >> ELSE << >>)

StateKeys == {"hasFocus", "selections", "isSelecting", "isEditing", "isHovering"}

\* setValue(state, path, value)
setValue(state, path, value) ==
    IF path.rest = ""
    THEN IF path.root \in StateKeys
         THEN Ok([state EXCEPT ![path.root] = value])
         ELSE Throw("Unsupported root property")
    ELSE Throw("Unsupported path")

\* currentArray.splice(index, 1) on a copy, index counted from 0
spliceOut(array, index) ==
    [k \in 1..(Len(array) - (IF index < Len(array) THEN 1 ELSE 0)) |->
        IF k - 1 < index THEN array[k] ELSE array[k + 1]]

\* currentArray.splice(index, 0, value) on a copy, index counted from 0
spliceIn(array, index, value) ==
    LET at == MinInt(index, Len(array))
    IN  SubSeq(array, 1, at) \o << value >> \o SubSeq(array, at + 1, Len(array))

\* getValue(state, path): the walk along the parts of the path
getValue(state, path) ==
    IF path.rest = "" THEN state[path.root]
    ELSE IF path.rest = "index" /\ path.root = "selections"
              /\ path.index < Len(state.selections)
    THEN state.selections[path.index + 1]
    ELSE Undefined

\* a test patch that is skipped without a look at the current value
applyPatchTestSkipped(newState, patch) ==
    IF patch.op = "test" THEN Ok(newState)
    ELSE IF patch.op = "replace" THEN setValue(newState, patch.path, patch.value)
    ELSE IF patch.op = "add" /\ patch.path.rest = "-"
    THEN setValue(newState, rootPath(patch.path.root),
                  Append(newState[patch.path.root], patch.value))
    ELSE IF patch.op = "add" /\ patch.path.rest = "index"
    THEN Ok([newState EXCEPT !.selections = spliceIn(@, patch.path.index, patch.value)])
    ELSE IF patch.op = "remove" /\ patch.path.rest = "index"
    THEN Ok([newState EXCEPT !.selections = spliceOut(@, patch.path.index)])
    ELSE Throw("Unsupported patch operation")

\* one round of the loop of applyPatches (lines 220-281)
applyPatch(newState, patch) ==
    IF patch.op = "replace" THEN setValue(newState, patch.path, patch.value)
    ELSE IF patch.op = "add"
    THEN IF patch.path.rest = "-"
         THEN setValue(newState, rootPath(patch.path.root),
                       Append(newState[patch.path.root], patch.value))
         ELSE IF patch.path.rest = "index" /\ patch.path.root = "selections"
         THEN Ok([newState EXCEPT !.selections = spliceIn(@, patch.path.index, patch.value)])
         ELSE Throw("Unsupported add path")
    ELSE IF patch.op = "remove"
    THEN IF patch.path.rest = "index" /\ patch.path.root = "selections"
         THEN Ok([newState EXCEPT !.selections = spliceOut(@, patch.path.index)])
         ELSE Throw("Unsupported remove path")
    ELSE IF patch.op = "test"
    THEN IF ~deepEqual(getValue(newState, patch.path), patch.value)
         THEN Throw("Test failed")
         ELSE Ok(newState)
    ELSE Throw("Unsupported patch operation")

RECURSIVE applyPatchesFrom(_, _, _)
applyPatchesFrom(newState, list, i) ==
    IF i > Len(list) THEN Ok(newState)
    ELSE LET step == applyPatch(newState, list[i])
         IN  IF step.thrown # "" THEN step
             ELSE applyPatchesFrom(step.value, list, i + 1)

applyPatches(state, list) == applyPatchesFrom(state, list, 1)

\* Object identity in applyPatches.  An array is "input" (the selections array
\* of the snapshot passed in), "patch" (the value of a replace patch) or "copy"
\* (an array applyPatches made).

\* a splice on newState.selections itself
spliceTargetInPlace(arrayIs) == arrayIs

\* const currentArray = [...newState.selections] (lines 238 and 255): the array
\* that splice changes
spliceTarget(arrayIs) == "copy"

\* the patch ends in a currentArray.splice(...)
splices(patch) ==
    /\ patch.op \in {"add", "remove"}
    /\ patch.path.rest = "index"
    /\ patch.path.root = "selections"

\* which array newState.selections is once the patch has been applied
arrayAfter(arrayIs, patch) ==
    IF splices(patch) THEN spliceTarget(arrayIs)
    ELSE IF patch.op = "add" THEN "copy"
    ELSE IF patch.op = "replace" /\ patch.path.root = "selections" THEN "patch"
    ELSE arrayIs

\* the loop of applyPatches on objects: r.input is the value of the snapshot
\* passed in, r.newState the value of the local newState, r.arrayIs the array
\* newState.selections, r.returned the object newState
RECURSIVE applyOnObjectsFrom(_, _, _)
applyOnObjectsFrom(r, list, i) ==
    IF i > Len(list) THEN r
    ELSE LET step == applyPatch(r.newState, list[i])
             hit == splices(list[i]) /\ spliceTarget(r.arrayIs) = "input"
         IN  IF step.thrown # "" THEN [r EXCEPT !.thrown = step.thrown]
             ELSE applyOnObjectsFrom(
                      [r EXCEPT !.newState = step.value,
                                !.arrayIs = arrayAfter(r.arrayIs, list[i]),
                                !.input = IF hit
                                          THEN [@ EXCEPT !.selections = step.value.selections]
                                          ELSE @],
                      list, i + 1)

\* let newState = {...state} (line 218), then the loop
applyPatchesOnObjects(state, list) ==
    applyOnObjectsFrom([input |-> state, newState |-> state, arrayIs |-> "input",
                        returned |-> "copy", thrown |-> ""], list, 1)

-----------------------------------------------------------------------------
(* Listeners and onUpdate: part_002 lines 61-125.                            *)
(* A callback is a number; behaviour[callback] says what its body does with  *)
(* the manager when it is called.  While a handler runs, the parts of the    *)
(* manager a callback can change are carried in a record ("the manager"):    *)
(*   state, nextStateListeners, requestedStateListeners, closures, log,      *)
(*   applied (whether the selections array handed to the callbacks became    *)
(*   this.selections)                                                        *)

\* what a callback body may do
Quiet == [kind |-> "none", list |-> "", target |-> 0]
\* calls manager.setState(the state it was handed)
Applies == [kind |-> "setState", list |-> "", target |-> 0]
\* calls the function that onNextState / onNewRequestedState returned for target
Unsubscribes(list, target) == [kind |-> "unsubscribe", list |-> list, target |-> target]
\* calls onNextState / onNewRequestedState with the callback target
Subscribes(list, target) == [kind |-> "subscribe", list |-> list, target |-> target]

\* indexOf(callback), from 1; 0 stands for the -1 of the source
indexOf(list, callback) ==
    IF \E i \in 1..Len(list) : list[i] = callback
    THEN CHOOSE i \in 1..Len(list) :
             list[i] = callback /\ \A j \in 1..(i - 1) : list[j] # callback
    ELSE 0

\* list.splice(list.indexOf(callback), 1); splice(-1, 1) removes the last element
unsubscribe(list, callback) ==
    LET i == indexOf(list, callback)
        at == IF i = 0 THEN Len(list) ELSE i
    IN  IF Len(list) = 0 THEN list
        ELSE SubSeq(list, 1, at - 1) \o SubSeq(list, at + 1, Len(list))

\* setState(state) with an object that has all five keys: isEditing is not assigned
setState(live, state) ==
    [live EXCEPT !.hasFocus = state.hasFocus,
                 !.selections = state.selections,
                 !.isSelecting = state.isSelecting,
                 !.isHovering = state.isHovering]

\* setState(p) with an object p that has the keys p.provided, with the values
\* p.value gives them (lines 61-72): `??` keeps the live value of a key that p
\* does not have, and no line assigns isEditing
setStatePartial(live, p) ==
    [live EXCEPT
        !.hasFocus = IF "hasFocus" \in p.provided THEN p.value.hasFocus ELSE @,
        !.selections = IF "selections" \in p.provided THEN p.value.selections ELSE @,
        !.isSelecting = IF "isSelecting" \in p.provided THEN p.value.isSelecting ELSE @,
        !.isHovering = IF "isHovering" \in p.provided THEN p.value.isHovering ELSE @]

Manager(state) ==
    [state |-> state, nextStateListeners |-> nextStateListeners,
     requestedStateListeners |-> requestedStateListeners, closures |-> closures,
     log |-> << >>, applied |-> FALSE]

\* one call listener(state) made by the forEach over the list named listName
callListener(m, listName, callback, state) ==
    LET b == behaviour[callback]
        logged == [m EXCEPT !.log = Append(@, [list |-> listName, callback |-> callback,
                                               state |-> state])]
    IN  IF b.kind = "setState"
        THEN [logged EXCEPT !.state = setState(@, state), !.applied = TRUE]
        ELSE IF b.kind = "unsubscribe"
        THEN [logged EXCEPT ![b.list] = unsubscribe(@, b.target)]
        ELSE IF b.kind = "subscribe"
        THEN [logged EXCEPT ![b.list] = Append(@, b.target),
                            !.closures = @ \cup {[list |-> b.list, callback |-> b.target]}]
        ELSE logged

RECURSIVE forEachFrom(_, _, _, _, _)
\* Array.prototype.forEach: the length is read once, before the first call, and an
\* index is visited only if the array still has it
forEachFrom(m, listName, k, len, state) ==
    IF k > len THEN m
    ELSE IF k > Len(m[listName]) THEN forEachFrom(m, listName, k + 1, len, state)
    ELSE forEachFrom(callListener(m, listName, m[listName][k], state),
                     listName, k + 1, len, state)

forEachListener(m, listName, state) ==
    forEachFrom(m, listName, 1, Len(m[listName]), state)

\* the index of the stored patch whose value is the array that a replay of the
\* stored patches leaves in selections: the last patch on selections, if it is a
\* replace; 0 if the replay ends with an array of its own
replayedArray(list) ==
    LET onSelections == {i \in 1..Len(list) : list[i].path.root = "selections"}
        last == CHOOSE i \in onSelections : \A j \in onSelections : j <= i
    IN  IF onSelections = {} THEN 0
        ELSE IF list[last].op = "replace" /\ list[last].path.rest = "" THEN last
        ELSE 0

\* this.patches as the handler's changes to this.selections leave it: a replace
\* patch holds the array it was given, not a copy, so when that array has become
\* this.selections (setState with the replayed state) a splice, push or
\* length = 0 on this.selections changes the stored patch too.  Areas and
\* isSelecting objects are kept by value: a handler that writes into one of them
\* always changes the value, and the replace patch that follows overrides every
\* older patch that still holds the object.
storedPatches(out) ==
    IF selAlias # 0 /\ out.inPlace
    THEN [patches EXCEPT ![selAlias].value = out.state.selections]
    ELSE patches

\* the controlled branch of onUpdate() (lines 107-115), from the push on:
\* this.patches is `all`, the live fields are this.prevState again
requestState(m, all, batchedNextState) ==
    IF batchedNextState.thrown # ""
    THEN [m |-> m, patches |-> all, thrown |-> batchedNextState.thrown]
    ELSE [m |-> forEachListener(m, "requestedStateListeners", batchedNextState.value),
          patches |-> all, thrown |-> ""]

\* this.patches.push(...patch) and the replay of all of this.patches
pushAndReplay(m, all) == requestState(m, all, applyPatches(getState, all))

\* the committed listeners are called as well, after the requested ones
alsoCommitted(r) ==
    [r EXCEPT !.m = forEachListener(r.m, "nextStateListeners", r.m.state)]

\* onUpdate() that in controlled mode notifies both classes of listener
onUpdateNotifiesBoth(m, out) ==
    IF controlled
    THEN alsoCommitted(pushAndReplay([m EXCEPT !.state = setState(@, getState)],
                                     storedPatches(out) \o createPatches(getState, m.state)))
    ELSE [m |-> forEachListener(m, "nextStateListeners", m.state),
          patches |-> storedPatches(out), thrown |-> ""]

\* onUpdate(), entered with the live fields in m.state; this.prevState is the
\* state the handler began with, which is getState of the model
onUpdate(m, out) ==
    IF controlled
    THEN pushAndReplay([m EXCEPT !.state = setState(@, getState)],
                       storedPatches(out) \o createPatches(getState, m.state))
    ELSE [m |-> forEachListener(m, "nextStateListeners", m.state),
          patches |-> storedPatches(out), thrown |-> ""]

\* what a handler leaves behind when it returns without calling onUpdate()
noUpdate(out) ==
    [m |-> Manager(out.state), patches |-> storedPatches(out), thrown |-> out.thrown]

\* The object returned by getState() (lines 51-59) has this.selections itself as
\* its selections, and onUpdate() hands such an object to the committed
\* listeners (lines 104, 117).  While this.selections is still that array, what
\* a handler writes into it, or into an area in it, is what the holder reads.
\* The object is followed up to the handler that assigns a new array to
\* this.selections.
heldAfter(out) ==
    IF held.taken
    THEN IF out.inPlace /\ ~(controlled /\ out.update)
         THEN [held EXCEPT !.now.selections = out.state.selections]
         ELSE [NoSnapshot EXCEPT !.keeps = held.keeps]
    ELSE IF held.keeps /\ out.update /\ ~controlled /\ Len(nextStateListeners) > 0
    THEN [taken |-> TRUE, keeps |-> TRUE, via |-> "listener",
          original |-> out.state, now |-> out.state]
    ELSE held

\* the end of an entry point: r is what onUpdate() (or its absence) left behind
Return(op, out, nextGesture, r) ==
    /\ steps < MaxOps
    /\ steps' = steps + 1
    /\ lastOp' = op
    /\ gesture' = nextGesture
    /\ prevState' = getState
    /\ nextState' = IF out.update THEN out.state ELSE nextState
    /\ hasFocus' = r.m.state.hasFocus
    /\ selections' = r.m.state.selections
    /\ isSelecting' = r.m.state.isSelecting
    /\ isEditing' = r.m.state.isEditing
    /\ isHovering' = r.m.state.isHovering
    /\ patches' = r.patches
    /\ selAlias' = IF r.m.applied /\ controlled THEN replayedArray(r.patches)
                   ELSE IF controlled /\ out.update THEN 0
                   ELSE IF out.inPlace THEN selAlias ELSE 0
    /\ nextStateListeners' = r.m.nextStateListeners
    /\ requestedStateListeners' = r.m.requestedStateListeners
    /\ closures' = r.m.closures
    /\ log' = r.m.log
    /\ fillLog' = out.fill
    /\ updateLog' = out.updates
    /\ copyLog' = out.copies
    /\ prevented' = out.prevented
    /\ thrown' = r.thrown
    /\ held' = heldAfter(out)
    /\ UNCHANGED << numRows, numCols, groups, controlled, behaviour, fn >>

\* a whole entry point: willMaybeUpdate(), the handler, and onUpdate() if the
\* handler calls it
Call(op, out, nextGesture) ==
    Return(op, out, nextGesture,
           IF out.update THEN onUpdate(Manager(out.state), out) ELSE noUpdate(out))

Op(name, a) == [name |-> name, a |-> a]

\* the gesture ends: the next mouseUp belongs to no cell press
EndGesture ==
    [gesture EXCEPT !.live = FALSE, !.committed = FALSE, !.header = NoHeaderPress]

-----------------------------------------------------------------------------
(* Entry points as actions.  Each takes the sets its arguments are drawn from. *)

CellMouseDown(cells, optionSet) ==
    \E cell \in cells, options \in optionSet :
        Call(Op("cellMouseDown", << cell.row, cell.col, options >>),
             cellMouseDown(cell.row, cell.col, options),
             [live |-> TRUE, committed |-> FALSE, pressed |-> cell, last |-> cell,
              entered |-> FALSE, options |-> options, before |-> selections,
              header |-> NoHeaderPress])

CellMouseEnter(cells) ==
    \E cell \in cells :
        Call(Op("cellMouseEnter", << cell.row, cell.col >>),
             cellMouseEnter(cell.row, cell.col),
             IF gesture.live THEN [gesture EXCEPT !.last = cell, !.entered = TRUE]
             ELSE [gesture EXCEPT !.header = NoHeaderPress])

MouseUp ==
    Call(Op("mouseUp", << >>), mouseUp,
         [gesture EXCEPT !.live = FALSE, !.committed = gesture.live,
                         !.header.state = IF @ = "pressed" THEN "committed" ELSE "none"])

HeaderMouseDown(indexes, optionSet) ==
    \E index \in indexes, type \in {"row", "col"}, options \in optionSet :
        Call(Op("headerMouseDown", << index, type, options >>),
             headerMouseDown(index, type, options),
             [EndGesture EXCEPT !.header = [state |-> "pressed", index |-> index,
                                            type |-> type, options |-> options,
                                            before |-> selections]])

HeaderMouseEnter(indexes) ==
    \E index \in indexes, type \in {"row", "col"} :
        Call(Op("headerMouseEnter", << index, type >>),
             headerMouseEnter(index, type), EndGesture)

CancelSelection == Call(Op("cancelSelection", << >>), cancelSelection, EndGesture)

CancelHovering == Call(Op("cancelHovering", << >>), cancelHovering, EndGesture)

EditCell(cells, values) ==
    \E cell \in cells, initialValue \in values :
        Call(Op("editCell", << cell.row, cell.col, initialValue >>),
             editCell(cell.row, cell.col, initialValue), EndGesture)

CancelEditing == Call(Op("cancelEditing", << >>), cancelEditing, EndGesture)

Focus == Call(Op("focus", << >>), focus, EndGesture)

Blur == Call(Op("blur", << >>), blur, EndGesture)

\* the modifier and fill-handle flags of a press
NoKeys == Options(FALSE, FALSE, FALSE, FALSE)
FillHandle == Options(FALSE, FALSE, FALSE, TRUE)
\* shift and ctrl in every combination
KeyOptions == {Options(s, c, FALSE, FALSE) : s \in BOOLEAN, c \in BOOLEAN}
\* the same with the meta key and with the fill-handle flag
DownOptions == KeyOptions \cup {Options(s, FALSE, TRUE, FALSE) : s \in BOOLEAN}
                   \cup {Options(s, c, FALSE, TRUE) : s \in BOOLEAN, c \in BOOLEAN}

-----------------------------------------------------------------------------
(* Specification SpecMouse: pointer gestures on an uncontrolled manager *)

\* selections a manager starts with (installed with setState by its owner)
SeedSelections ==
    { << >>,
      << mkArea(0, 0, Num(1), Num(1)) >>,
      << mkArea(1, 1, Num(0), Num(2)) >>,
      << mkArea(0, 0, Num(1), Num(1)), mkArea(1, 1, Num(2), Num(2)) >>,
      << mkArea(1, 0, Num(1), INF), mkArea(0, 1, INF, Num(1)) >>,
      << mkArea(0, 0, Num(0), Num(2)), mkArea(1, 0, Num(2), Num(2)) >> }

MouseInit ==
    /\ \E size \in GridSizes :
        /\ numRows = size
        /\ numCols = size
    /\ groups = << >>
    /\ selections \in SeedSelections
    /\ hasFocus = FALSE
    /\ isSelecting = NoneSelecting
    /\ isEditing = NoneEditing
    /\ isHovering = NoneHovering
    /\ controlled = FALSE
    /\ prevState = ConstructedState
    /\ nextState = ConstructedState
    /\ patches = << >>
    /\ selAlias = 0
    /\ nextStateListeners = << >>
    /\ requestedStateListeners = << >>
    /\ behaviour = << >>
    /\ closures = {}
    /\ log = << >>
    /\ fillLog = << >>
    /\ updateLog = << >>
    /\ copyLog = 0
    /\ prevented = FALSE
    /\ thrown = ""
    /\ lastOp = Op("new", << >>)
    /\ gesture = NoGesture
    /\ steps = 0
    /\ fn = NoCall
    /\ held = NoSnapshot

MouseNext ==
    \/ CellMouseDown(Cells, KeyOptions \cup {FillHandle})
    \/ CellMouseEnter(Cells)
    \/ MouseUp
    \/ HeaderMouseDown(Coords, {NoKeys})
    \/ HeaderMouseEnter(Coords)
    \/ CancelSelection

SpecMouse == MouseInit /\ [][MouseNext]_vars

-----------------------------------------------------------------------------
(* Specification SpecGeo: the pure geometry functions on drawn inputs *)

\* a manager whose selections were set through setState(initialState)
GeoInit ==
    /\ \E rows \in GridSizes, cols \in GridSizes :
        /\ numRows = rows
        /\ numCols = cols
    /\ groups = << >>
    /\ selections \in ListsUpTo(Areas, MaxSel)
    /\ hasFocus = FALSE
    /\ isSelecting = NoneSelecting
    /\ isEditing = NoneEditing
    /\ isHovering = NoneHovering
    /\ controlled = FALSE
    /\ prevState = ConstructedState
    /\ nextState = ConstructedState
    /\ patches = << >>
    /\ selAlias = 0
    /\ nextStateListeners = << >>
    /\ requestedStateListeners = << >>
    /\ behaviour = << >>
    /\ closures = {}
    /\ log = << >>
    /\ fillLog = << >>
    /\ updateLog = << >>
    /\ copyLog = 0
    /\ prevented = FALSE
    /\ thrown = ""
    /\ lastOp = [name |-> "new", a |-> << >>]
    /\ gesture = NoGesture
    /\ steps = 0
    /\ fn = NoCall
    /\ held = NoSnapshot

managerVars == << numRows, numCols, groups, hasFocus, selections, isSelecting, isEditing,
                  isHovering, controlled, prevState, nextState, patches, selAlias, nextStateListeners,
                  requestedStateListeners, behaviour, closures, log, fillLog, updateLog,
                  copyLog, prevented, thrown, lastOp, gesture, steps, held >>

\* subtractSelection(selections[1], toRemove)
CallSubtractSelection ==
    /\ fn.name = "none"
    /\ Len(selections) = 1
    /\ \E toRemove \in Areas :
        fn' = [name |-> "subtractSelection", original |-> selections[1],
               toRemove |-> toRemove,
               result |-> subtractSelection(selections[1], toRemove)]
    /\ UNCHANGED managerVars

\* getNonOverlappingSelections()
CallGetNonOverlappingSelections ==
    /\ fn.name = "none"
    /\ fn' = [name |-> "getNonOverlappingSelections",
              result |-> getNonOverlappingSelections]
    /\ UNCHANGED managerVars

GeoNext ==
    \/ CallSubtractSelection
    \/ CallGetNonOverlappingSelections

SpecGeo == GeoInit /\ [][GeoNext]_vars

-----------------------------------------------------------------------------
(* Cell sets, for stating the geometry claims *)

\* cells of the model plus a margin that stands for everything beyond
Window == 0..(MaxCoord + 2)
WindowCells == {Cell(r, c) : r \in Window, c \in Window}

CellsOf(area) == {c \in WindowCells : cellInSelection(c, area)}
CellsOfList(sels) == UNION {CellsOf(sels[i]) : i \in 1..Len(sels)}
PairwiseDisjoint(sels) ==
    \A i \in 1..Len(sels), j \in 1..Len(sels) :
        i # j => CellsOf(sels[i]) \cap CellsOf(sels[j]) = {}

FiniteGrid == numRows.type = "number" /\ numCols.type = "number"

\* C5: on a finite grid getNonOverlappingSelections() returns areas that cover
\* exactly the cells of the selections and that are pairwise disjoint
C5_DecompositionExact ==
    (fn.name = "getNonOverlappingSelections" /\ FiniteGrid) =>
        /\ fn.result.thrown = ""
        /\ CellsOfList(fn.result.value) = CellsOfList(selections)
        /\ PairwiseDisjoint(fn.result.value)

\* C5 witness: two overlapping selections, one of them with an Infinite end,
\* were decomposed into more than two areas
C5_Witness ==
    /\ fn.name = "getNonOverlappingSelections"
    /\ FiniteGrid
    /\ Len(selections) = 2
    /\ CellsOf(selections[1]) \cap CellsOf(selections[2]) # {}
    /\ selections[1].end.row.type = "infinity"
    /\ Len(fn.result.value) > 2

\* C6: subtractSelection(a, b) returns at most four pairwise disjoint areas inside
\* a, none touching b, which together with a \cap b are exactly a
C6_SubtractExact ==
    fn.name = "subtractSelection" =>
        LET a == CellsOf(fn.original)
            b == CellsOf(fn.toRemove)
            r == fn.result.value
        IN  /\ fn.result.thrown = ""
            /\ Len(r) <= 4
            /\ PairwiseDisjoint(r)
            /\ CellsOfList(r) \subseteq a
            /\ CellsOfList(r) \cap b = {}
            /\ CellsOfList(r) \cup (a \cap b) = a

\* C6 witness: a removal from the middle of an area with an Infinite end left four bands
C6_Witness ==
    /\ fn.name = "subtractSelection"
    /\ fn.original.end.row.type = "infinity"
    /\ Len(fn.result.value) = 4

\* C6 witness for the non-overlapping case lives in the same state space
C6_DisjointCaseReached ==
    /\ fn.name = "subtractSelection"
    /\ CellsOf(fn.original) \cap CellsOf(fn.toRemove) = {}
    /\ CellsOf(fn.original) # {}

-----------------------------------------------------------------------------
(* Claims about pointer gestures (SpecMouse) *)

\* the cells a selection list selects (isSelected), within the window
SelectedCells(sels) == {c \in WindowCells : isSelectedIn(sels, c)}

\* the cells of the rectangle with corners a and b
Between(a, b) ==
    {c \in WindowCells : /\ MinInt(a.row, b.row) <= c.row /\ c.row <= MaxInt(a.row, b.row)
                         /\ MinInt(a.col, b.col) <= c.col /\ c.col <= MaxInt(a.col, b.col)}

toggleHeld(options) == options.ctrlKey \/ options.metaKey

\* a Remove gesture was committed by the last call: a press with the toggle
\* modifier alone on a cell that was selected, cell entries, then mouseUp
RemoveGestureCommitted ==
    /\ lastOp.name = "mouseUp"
    /\ gesture.committed
    /\ toggleHeld(gesture.options)
    /\ ~gesture.options.shiftKey
    /\ ~gesture.options.isFillHandle
    /\ isSelectedIn(gesture.before, gesture.pressed)

\* C7: after a committed Remove gesture over R the selected cells are the cells
\* selected before the gesture minus the cells of R
C7_RemoveGestureSubtracts ==
    RemoveGestureCommitted =>
        SelectedCells(selections)
            = SelectedCells(gesture.before) \ Between(gesture.pressed, gesture.last)

\* C7 witness: a Remove gesture over more than one cell took cells out of two
\* overlapping selections and left other cells of them selected
C7_Witness ==
    /\ RemoveGestureCommitted
    /\ gesture.pressed # gesture.last
    /\ Len(gesture.before) = 2
    /\ CellsOf(gesture.before[1]) \cap CellsOf(gesture.before[2]) # {}
    /\ \A i \in 1..2 : CellsOf(gesture.before[i]) \cap Between(gesture.pressed, gesture.last) # {}
    /\ SelectedCells(selections) # {}
    /\ Len(selections) > 2

\* C9: mouseUp with a Drag, Add or Shift interaction appends one area to the list
\* it found, from the anchor to the cell entered last (the pressed cell if none
\* was entered); a plain click on c ends with selections = [c..c] and c selected
C9_CommitAppendsOneArea ==
    /\ (lastOp.name = "mouseUp" /\ prevState.isSelecting.type \in {"drag", "add", "shift"}) =>
           /\ Len(selections) = Len(prevState.selections) + 1
           /\ SubSeq(selections, 1, Len(prevState.selections)) = prevState.selections
           /\ selections[Len(selections)].start = prevState.isSelecting.start
           /\ selections[Len(selections)].end = prevState.isSelecting.end
    /\ (lastOp.name = "mouseUp" /\ gesture.committed
            /\ prevState.isSelecting.type \in {"drag", "add", "shift"}) =>
           /\ selections[Len(selections)].start =
                  IF prevState.isSelecting.type = "shift"
                  THEN gesture.before[Len(gesture.before)].start
                  ELSE gesture.pressed
           /\ selections[Len(selections)].end =
                  [row |-> Num(gesture.last.row), col |-> Num(gesture.last.col)]
    /\ (lastOp.name = "mouseUp" /\ gesture.committed /\ ~gesture.entered
            /\ gesture.options = NoKeys) =>
           /\ selections = << mkArea(gesture.pressed.row, gesture.pressed.col,
                                     Num(gesture.pressed.row), Num(gesture.pressed.col)) >>
           /\ isSelected(gesture.pressed)

\* C9 witness: a Shift gesture that entered another cell was committed behind an
\* earlier entry of the list
C9_Witness ==
    /\ lastOp.name = "mouseUp"
    /\ gesture.committed
    /\ prevState.isSelecting.type = "shift"
    /\ gesture.entered
    /\ gesture.last # gesture.pressed
    /\ Len(selections) = 2

\* C9 witness for the plain click
C9_ClickReached ==
    /\ lastOp.name = "mouseUp"
    /\ gesture.committed
    /\ ~gesture.entered
    /\ gesture.options = NoKeys
    /\ gesture.before # << >>

\* C10: isSelecting is None after every mouseUp and cancelSelection, and a call
\* that finds it None leaves it None unless it is cellMouseDown or headerMouseDown
C10_InteractionEnds ==
    /\ lastOp.name \in {"mouseUp", "cancelSelection"} => isSelecting.type = "none"
    /\ (lastOp.name # "new" /\ prevState.isSelecting.type = "none"
            /\ isSelecting.type # "none") =>
           lastOp.name \in {"cellMouseDown", "headerMouseDown"}

\* C10 witness: mouseUp ended a fill interaction; cellMouseEnter found no interaction
C10_Witness ==
    /\ lastOp.name = "mouseUp"
    /\ prevState.isSelecting.type = "fill"
    /\ isSelecting.type = "none"

C10_EnterFromNoneReached ==
    /\ lastOp.name \in {"cellMouseEnter", "headerMouseEnter"}
    /\ prevState.isSelecting.type = "none"
    /\ prevState.selections # << >>

-----------------------------------------------------------------------------
(* Specification SpecPress: one cellMouseDown on every small selection list *)

\* areas anchored in the upper-left cells, ending at a cell of that block or
\* at Infinity, corners in either order
PressAreas ==
    {mkArea(sr, sc, er, ec) :
        sr \in 0..(MaxCoord - 1), sc \in 0..(MaxCoord - 1),
        er \in {Num(n) : n \in 0..(MaxCoord - 1)} \cup {INF},
        ec \in {Num(n) : n \in 0..(MaxCoord - 1)} \cup {INF}}

PressInit ==
    /\ \E size \in GridSizes :
        /\ numRows = size
        /\ numCols = size
    /\ groups = << >>
    /\ selections \in ListsUpTo(PressAreas, MaxSel)
    /\ hasFocus = FALSE
    /\ isSelecting = NoneSelecting
    /\ isEditing = NoneEditing
    /\ isHovering = NoneHovering
    /\ controlled = FALSE
    /\ prevState = ConstructedState
    /\ nextState = ConstructedState
    /\ patches = << >>
    /\ selAlias = 0
    /\ nextStateListeners = << >>
    /\ requestedStateListeners = << >>
    /\ behaviour = << >>
    /\ closures = {}
    /\ log = << >>
    /\ fillLog = << >>
    /\ updateLog = << >>
    /\ copyLog = 0
    /\ prevented = FALSE
    /\ thrown = ""
    /\ lastOp = Op("new", << >>)
    /\ gesture = NoGesture
    /\ steps = 0
    /\ fn = NoCall
    /\ held = NoSnapshot

\* the first call on the manager is a press
PressNext == steps = 0 /\ CellMouseDown(Cells, DownOptions)

SpecPress == PressInit /\ [][PressNext]_vars

\* the cells of the grid inside the window
GridCells ==
    {c \in WindowCells :
        /\ numRows.type = "number" => c.row < numRows.value
        /\ numCols.type = "number" => c.col < numCols.value}

\* a non-empty set of cells that fills the box between its extreme rows and columns
IsBox(covered) ==
    /\ covered # {}
    /\ \A a \in covered, b \in covered : Cell(a.row, b.col) \in covered

\* the selected cells of the grid form one rectangle
RectangularBase(sels) == IsBox(CellsOfList(sels) \cap GridCells)

\* C8 with the list before the press, the pressed cell and the options of the press
PressFollowsPriority(before, cell, options) ==
    IF options.isFillHandle /\ RectangularBase(before)
    THEN /\ isSelecting.type = "fill"
         /\ selections = before
    ELSE IF options.shiftKey /\ before # << >>
    THEN /\ isSelecting.type = "shift"
         /\ isSelecting.start = before[Len(before)].start
         /\ isSelecting.end = endAt(cell.row, cell.col)
         /\ selections = SubSeq(before, 1, Len(before) - 1)
    ELSE IF toggleHeld(options)
    THEN /\ isSelecting.type = IF isSelectedIn(before, cell) THEN "remove" ELSE "add"
         /\ isSelecting.start = cell
         /\ isSelecting.end = endAt(cell.row, cell.col)
         /\ selections = before
    ELSE /\ isSelecting.type = "drag"
         /\ isSelecting.start = cell
         /\ isSelecting.end = endAt(cell.row, cell.col)
         /\ selections = << >>

\* C8: cellMouseDown picks the interaction by priority: the fill-handle flag
\* with a rectangular base gives Fill and leaves the list alone; otherwise
\* shift with a non-empty list pops the last selection and enters Shift
\* anchored at its start, whether or not the toggle modifier is held;
\* otherwise ctrl/meta enters Remove on a selected cell and Add on an
\* unselected one and leaves the list alone; otherwise the list is cleared and
\* Drag starts at the cell.  Shift with an empty list falls to the last two.
C8_PressPriority ==
    lastOp.name = "cellMouseDown" =>
        PressFollowsPriority(prevState.selections,
                             Cell(lastOp.a[1], lastOp.a[2]), lastOp.a[3])

\* shift and ctrl pressed together over a non-empty list, no fill flag
C8_Witness ==
    /\ lastOp.name = "cellMouseDown"
    /\ lastOp.a[3].shiftKey /\ lastOp.a[3].ctrlKey /\ ~lastOp.a[3].isFillHandle
    /\ Len(prevState.selections) = 2
    /\ isSelecting.type = "shift"
    /\ Len(selections) = 1

\* shift over an empty list falls through to the toggle branch
C8_ShiftOnEmptyReached ==
    /\ lastOp.name = "cellMouseDown"
    /\ lastOp.a[3].shiftKey /\ lastOp.a[3].metaKey
    /\ prevState.selections = << >>
    /\ isSelecting.type = "add"

\* the fill flag over two areas that make up one rectangle
C8_FillReached ==
    /\ lastOp.name = "cellMouseDown"
    /\ lastOp.a[3].isFillHandle /\ lastOp.a[3].shiftKey
    /\ Len(prevState.selections) = 2
    /\ isSelecting.type = "fill"

\* the fill flag over a list that is no rectangle: the press is an ordinary one
C8_FillRefusedReached ==
    /\ lastOp.name = "cellMouseDown"
    /\ lastOp.a[3].isFillHandle
    /\ prevState.selections # << >>
    /\ isSelecting.type = "drag"

-----------------------------------------------------------------------------
(* Specification SpecControlled: a controlled manager with one owner *)
(* subscribed through onNewRequestedState                             *)

\* the owner's callback
Owner == 1

\* the two cells the events of this specification name
CornerCells == {Cell(0, 0), Cell(1, 1)}

ControlledInit ==
    /\ numRows = FiniteSize
    /\ numCols = FiniteSize
    /\ groups = << >>
    /\ selections \in {<< >>, << mkArea(0, 0, Num(1), Num(1)) >>}
    /\ hasFocus = FALSE
    /\ isSelecting = NoneSelecting
    /\ isEditing = NoneEditing
    /\ isHovering = NoneHovering
    /\ controlled = TRUE
    /\ prevState = ConstructedState
    /\ nextState = ConstructedState
    /\ patches = << >>
    /\ selAlias = 0
    /\ nextStateListeners = << >>
    /\ requestedStateListeners = << Owner >>
    \* the owner either keeps the requested state to itself or hands it to
    \* setState from inside the callback
    /\ behaviour \in {<< Quiet >>, << Applies >>}
    /\ closures = {[list |-> "requestedStateListeners", callback |-> Owner]}
    /\ log = << >>
    /\ fillLog = << >>
    /\ updateLog = << >>
    /\ copyLog = 0
    /\ prevented = FALSE
    /\ thrown = ""
    /\ lastOp = Op("new", << >>)
    /\ gesture = NoGesture
    /\ steps = 0
    /\ fn = NoCall
    /\ held = NoSnapshot

ControlledNext ==
    \/ CellMouseDown(CornerCells, {NoKeys, Options(FALSE, TRUE, FALSE, FALSE)})
    \/ CellMouseEnter(CornerCells)
    \/ MouseUp
    \/ HeaderMouseDown({0}, {NoKeys})
    \/ HeaderMouseEnter({1})
    \/ CancelSelection
    \/ CancelHovering
    \/ EditCell({Cell(0, 0)}, {"a"})
    \/ CancelEditing
    \/ Focus
    \/ Blur

SpecControlled == ControlledInit /\ [][ControlledNext]_vars

\* an entry point has returned on a controlled manager whose owner did not call
\* setState from its callback
ReturnedUnapplied ==
    /\ controlled
    /\ lastOp.name # "new"
    /\ behaviour[Owner] = Quiet

\* C1: in controlled mode, after any mutating entry point returns, hasFocus,
\* selections, isSelecting, isEditing and isHovering all have the values they
\* had immediately before the call.
C1_FullyRolledBack == ReturnedUnapplied => getState = prevState

\* the four fields that setState assigns are rolled back
C1_AssignedFieldsRolledBack ==
    ReturnedUnapplied =>
        /\ hasFocus = prevState.hasFocus
        /\ selections = prevState.selections
        /\ isSelecting = prevState.isSelecting
        /\ isHovering = prevState.isHovering

\* editCell has returned and the live isEditing is the cell, not what it was
C1_EditingKeptReached ==
    /\ ReturnedUnapplied
    /\ lastOp.name = "editCell"
    /\ prevState.isEditing.type = "none"
    /\ isEditing.type = "cell"

\* C2: in controlled mode with an owner that applies each requested state
\* before the next event, the state handed to the requested-state listeners
\* for an operation is the state the operation produces in uncontrolled mode
\* from the same starting state (the state its handler left in the live
\* fields, which onUpdate() reads into nextState).
C2_RequestedIsUncontrolledResult ==
    (controlled /\ behaviour[Owner] = Applies) =>
        \A i \in 1..Len(log) : log[i].state = nextState

\* the first request of a behaviour is the uncontrolled result
C2_FirstRequestExact ==
    (controlled /\ behaviour[Owner] = Applies /\ steps = 1) =>
        \A i \in 1..Len(log) : log[i].state = nextState

\* a selection committed by an earlier operation is in the requested state twice
C2_AddedTwiceReached ==
    /\ controlled
    /\ behaviour[Owner] = Applies
    /\ log # << >>
    /\ Len(nextState.selections) = 1
    /\ Len(log[1].state.selections) = 2
    /\ log[1].state.selections[1] = log[1].state.selections[2]

-----------------------------------------------------------------------------
(* Specification SpecNotify: listeners that unsubscribe and subscribe from *)
(* inside their callbacks                                                   *)

\* callbacks registered with onNextState, in registration order
Committed == << 1, 2, 3 >>
\* callbacks registered with onNewRequestedState
Requested == << 4, 5 >>
\* a callback that is registered only from inside another callback
Late == 6

\* what a callback registered on `list` next to `others` may do when called
Behaviours(list, self, others) ==
    {Quiet, Unsubscribes(list, self), Subscribes(list, Late)}
        \cup {Unsubscribes(list, o) : o \in others \ {self}}

NotifyInit ==
    /\ numRows = FiniteSize
    /\ numCols = FiniteSize
    /\ groups = << >>
    /\ selections = << >>
    /\ hasFocus = FALSE
    /\ isSelecting = NoneSelecting
    /\ isEditing = NoneEditing
    /\ isHovering = NoneHovering
    /\ controlled \in BOOLEAN
    /\ prevState = ConstructedState
    /\ nextState = ConstructedState
    /\ patches = << >>
    /\ selAlias = 0
    /\ nextStateListeners = Committed
    /\ requestedStateListeners = Requested
    /\ \E b1 \in Behaviours("nextStateListeners", 1, {1, 2, 3}),
          b2 \in Behaviours("nextStateListeners", 2, {1, 2, 3}),
          b3 \in Behaviours("nextStateListeners", 3, {1, 2, 3}),
          b4 \in Behaviours("requestedStateListeners", 4, {4, 5}) :
            behaviour = << b1, b2, b3, b4, Quiet, Quiet >>
    /\ closures = {[list |-> "nextStateListeners", callback |-> c] : c \in {1, 2, 3}}
                    \cup {[list |-> "requestedStateListeners", callback |-> c] : c \in {4, 5}}
    /\ log = << >>
    /\ fillLog = << >>
    /\ updateLog = << >>
    /\ copyLog = 0
    /\ prevented = FALSE
    /\ thrown = ""
    /\ lastOp = Op("new", << >>)
    /\ gesture = NoGesture
    /\ steps = 0
    /\ fn = NoCall
    /\ held = NoSnapshot

NotifyNext ==
    \/ Focus
    \/ Blur
    \/ EditCell({Cell(0, 0)}, {"a"})
    \/ CancelEditing
    \/ CellMouseDown({Cell(0, 0)}, {NoKeys})
    \/ MouseUp

SpecNotify == NotifyInit /\ [][NotifyNext]_vars

\* the callbacks called by the last operation, in the order of the calls
Called == [i \in 1..Len(log) |-> log[i].callback]

\* the list that onUpdate() walks in the mode of the manager
NotifiedList == IF controlled THEN requestedStateListeners ELSE nextStateListeners

\* C3: an update calls one class of listener only: in uncontrolled mode the
\* onNextState listeners, each with a snapshot equal to the live state after
\* the operation; in controlled mode the onNewRequestedState listeners; never
\* both.
C3_OneListenerClass ==
    /\ \A i \in 1..Len(log) :
           log[i].list = IF controlled THEN "requestedStateListeners"
                         ELSE "nextStateListeners"
    /\ ~controlled => \A i \in 1..Len(log) : log[i].state = getState

\* a controlled update called the requested listeners while committed
\* listeners were registered
C3_Witness ==
    /\ controlled
    /\ lastOp.name = "focus"
    /\ log # << >>
    /\ nextStateListeners # << >>

\* an uncontrolled update called the committed listeners while requested
\* listeners were registered
C3_UncontrolledReached ==
    /\ ~controlled
    /\ lastOp.name = "mouseUp"
    /\ Len(log) = 3
    /\ requestedStateListeners # << >>
    /\ selections # << >>

\* C4: during one notification every listener registered when it began is
\* called exactly once, in registration order, whatever the callbacks
\* unsubscribe or subscribe.
C4_EachListenerOnceInOrder ==
    [][steps' # steps => (log' = << >> \/ Called' = NotifiedList)]_vars

\* listeners that leave the lists alone are all called, once and in order
C4_QuietListenersOnceInOrder ==
    [][(steps' # steps /\ \A c \in 1..Len(behaviour) : behaviour[c] = Quiet)
           => (log' = << >> \/ Called' = NotifiedList)]_vars

\* the first listener removed itself and the second, still registered, was
\* passed over
C4_SkippedReached ==
    /\ ~controlled
    /\ behaviour[1] = Unsubscribes("nextStateListeners", 1)
    /\ behaviour[2] = Quiet
    /\ behaviour[3] = Quiet
    /\ Called = << 1, 3 >>
    /\ nextStateListeners = << 2, 3 >>

-----------------------------------------------------------------------------
(* Specification SpecKeys: key presses on an uncontrolled manager *)

HandleKeyDown(events) ==
    \E event \in events :
        Call(Op("handleKeyDown", << event >>), handleKeyDown(event), EndGesture)

Escape == KeyboardEvent("Escape", FALSE, FALSE, FALSE)

KeysInit ==
    /\ \E size \in GridSizes :
        /\ numRows = size
        /\ numCols = size
    /\ groups = << >>
    /\ selections \in SeedSelections
    /\ hasFocus \in BOOLEAN
    /\ isSelecting = NoneSelecting
    /\ isEditing = NoneEditing
    /\ isHovering = NoneHovering
    /\ controlled = FALSE
    /\ prevState = ConstructedState
    /\ nextState = ConstructedState
    /\ patches = << >>
    /\ selAlias = 0
    /\ nextStateListeners = << Owner >>
    /\ requestedStateListeners = << >>
    /\ behaviour = << Quiet >>
    /\ closures = {[list |-> "nextStateListeners", callback |-> Owner]}
    /\ log = << >>
    /\ fillLog = << >>
    /\ updateLog = << >>
    /\ copyLog = 0
    /\ prevented = FALSE
    /\ thrown = ""
    /\ lastOp = Op("new", << >>)
    /\ gesture = NoGesture
    /\ steps = 0
    /\ fn = NoCall
    /\ held = NoSnapshot

KeysNext ==
    \/ HandleKeyDown({Escape})
    \/ CellMouseDown(CornerCells, {NoKeys, Options(FALSE, TRUE, FALSE, FALSE)})
    \/ HeaderMouseDown({1}, {NoKeys})
    \/ MouseUp
    \/ EditCell({Cell(0, 0)}, {"a"})
    \/ Focus

SpecKeys == KeysInit /\ [][KeysNext]_vars

\* the last call was handleKeyDown with the Escape key, uncontrolled
EscapePressed ==
    /\ ~controlled
    /\ lastOp.name = "handleKeyDown"
    /\ lastOp.a[1].key = "Escape"

\* everything Escape is to clear is cleared
Quiescent ==
    /\ isSelecting.type = "none"
    /\ selections = << >>
    /\ isEditing.type = "none"
    /\ hasFocus = FALSE

\* C11 as stated: in uncontrolled mode one Escape press from any state ends
\* with isSelecting none, selections empty, isEditing none and hasFocus false.
C11_EscapeClearsFromAnyState == EscapePressed => Quiescent

\* C11, amended: one Escape press while no cell is being edited ends with
\* isSelecting none, selections empty, isEditing none and hasFocus false, and
\* the listeners hear of it unless all four were so already; while a cell is
\* being edited, Escape only ends the editing and leaves hasFocus, selections
\* and isSelecting as they were.
C11_EscapeClearsUnlessEditing ==
    EscapePressed =>
        IF prevState.isEditing.type = "cell"
        THEN /\ isEditing.type = "none"
             /\ hasFocus = prevState.hasFocus
             /\ selections = prevState.selections
             /\ isSelecting = prevState.isSelecting
             /\ Len(log) = 1
        ELSE /\ Quiescent
             /\ Len(log) = IF /\ prevState.isSelecting.type = "none"
                              /\ prevState.selections = << >>
                              /\ ~prevState.hasFocus
                           THEN 0 ELSE 1

\* Escape during a gesture on a focused manager with committed selections
C11_Witness ==
    /\ EscapePressed
    /\ prevState.isEditing.type = "none"
    /\ prevState.isSelecting.type = "add"
    /\ prevState.selections # << >>
    /\ prevState.hasFocus
    /\ Quiescent

\* Escape while a cell is being edited leaves the selections and the focus
C11_EditingOnlyReached ==
    /\ EscapePressed
    /\ prevState.isEditing.type = "cell"
    /\ selections # << >>
    /\ hasFocus

\* Escape on a manager with nothing to clear notifies nobody
C11_QuiescentReached ==
    /\ EscapePressed
    /\ prevState.selections = << >>
    /\ ~prevState.hasFocus
    /\ prevState.isSelecting.type = "none"
    /\ prevState.isEditing.type = "none"
    /\ log = << >>

-----------------------------------------------------------------------------
(* Specification SpecHeader: one header click on every small selection list *)

\* areas over the cells of the model with start before end on both axes
ForwardAreas ==
    {a \in Areas : /\ a.end.row.type = "number" => a.start.row <= a.end.row.value
                   /\ a.end.col.type = "number" => a.start.col <= a.end.col.value}

HeaderInit ==
    /\ \E size \in GridSizes :
        /\ numRows = size
        /\ numCols = size
    /\ groups = << >>
    /\ selections \in ListsUpTo(ForwardAreas, MaxSel)
    /\ hasFocus = FALSE
    /\ isSelecting = NoneSelecting
    /\ isEditing = NoneEditing
    /\ isHovering = NoneHovering
    /\ controlled = FALSE
    /\ prevState = ConstructedState
    /\ nextState = ConstructedState
    /\ patches = << >>
    /\ selAlias = 0
    /\ nextStateListeners = << >>
    /\ requestedStateListeners = << >>
    /\ behaviour = << >>
    /\ closures = {}
    /\ log = << >>
    /\ fillLog = << >>
    /\ updateLog = << >>
    /\ copyLog = 0
    /\ prevented = FALSE
    /\ thrown = ""
    /\ lastOp = Op("new", << >>)
    /\ gesture = NoGesture
    /\ steps = 0
    /\ fn = NoCall
    /\ held = NoSnapshot

\* a header press, then the release
HeaderNext ==
    \/ steps = 0 /\ HeaderMouseDown(Coords, {NoKeys, Options(FALSE, TRUE, FALSE, FALSE)})
    \/ steps = 1 /\ MouseUp

SpecHeader == HeaderInit /\ [][HeaderNext]_vars

\* the cells of row or column `index` inside the grid
LineCells(type, index) ==
    {c \in GridCells : IF type = "row" THEN c.row = index ELSE c.col = index}

\* the area a header press on `index` spans: the whole row or column, up to
\* the last index of a finite grid and to Infinity on an unbounded one
LineStart(type, index) == IF type = "row" THEN Cell(index, 0) ELSE Cell(0, index)
LineEnd(type, index) ==
    IF type = "row"
    THEN [row |-> Num(index),
          col |-> IF numCols.type = "number" THEN Num(numCols.value - 1) ELSE INF]
    ELSE [row |-> IF numRows.type = "number" THEN Num(numRows.value - 1) ELSE INF,
          col |-> Num(index)]

\* what isWholeRowSelected / isWholeColSelected answer now
isWholeLineSelected(type, index) ==
    IF type = "row" THEN isWholeRowSelected(index) ELSE isWholeColSelected(index)

\* a header click (headerMouseDown, then mouseUp) with these options has just
\* been completed on an uncontrolled manager
HeaderClicked(options) ==
    /\ ~controlled
    /\ lastOp.name = "mouseUp"
    /\ gesture.header.state = "committed"
    /\ gesture.header.options = options

\* C12: headerMouseDown(i, row) without modifiers followed by mouseUp leaves
\* selections equal to the single area from (i, 0) to (i, last column), the
\* last column being numCols - 1 on a finite grid and Infinity on an unbounded
\* one, and isWholeRowSelected(i) is then true; the same for columns with the
\* axes swapped.
C12_HeaderClickSelectsLine ==
    HeaderClicked(NoKeys) =>
        /\ Len(selections) = 1
        /\ selections[1].start = LineStart(gesture.header.type, gesture.header.index)
        /\ selections[1].end = LineEnd(gesture.header.type, gesture.header.index)
        /\ isWholeLineSelected(gesture.header.type, gesture.header.index)
        /\ LineCells(gesture.header.type, gesture.header.index) \subseteq SelectedCells(selections)

\* a column header click on an unbounded grid that replaced two selections
C12_Witness ==
    /\ HeaderClicked(NoKeys)
    /\ gesture.header.type = "col"
    /\ gesture.header.index = 1
    /\ numRows.type = "infinity"
    /\ Len(gesture.header.before) = 2
    /\ selections[1].end.row.type = "infinity"

\* a row header click on a finite grid
C12_FiniteRowReached ==
    /\ HeaderClicked(NoKeys)
    /\ gesture.header.type = "row"
    /\ numCols.type = "number"
    /\ selections[1].end.col = Num(MaxCoord)

\* every cell of the line is selected in the list sels
WholeLineIn(sels, type, index) == LineCells(type, index) \subseteq SelectedCells(sels)

\* C13 for a toggle click on the line (type, index) pressed over the list before
ToggleClickDone(before, type, index) ==
    IF WholeLineIn(before, type, index)
    THEN /\ prevState.isSelecting.type = "remove"
         /\ LineCells(type, index) \cap SelectedCells(selections) = {}
    ELSE /\ prevState.isSelecting.type = "add"
         /\ isWholeLineSelected(type, index)
         /\ WholeLineIn(selections, type, index)
         /\ SelectedCells(before) \subseteq SelectedCells(selections)

\* C13: a toggle-modifier header click on row i enters Remove exactly when the
\* whole row is selected at press time and Add otherwise; after the mouseUp,
\* in the Remove case no cell of row i is selected, in the Add case the whole
\* row is selected and every cell selected before still is.  The same for
\* columns.
C13_ToggleHeaderClick ==
    HeaderClicked(Options(FALSE, TRUE, FALSE, FALSE)) =>
        ToggleClickDone(gesture.header.before, gesture.header.type, gesture.header.index)

\* a row that two selections covered piece by piece was removed
C13_Witness ==
    /\ HeaderClicked(Options(FALSE, TRUE, FALSE, FALSE))
    /\ gesture.header.type = "row"
    /\ numCols.type = "number"
    /\ Len(gesture.header.before) = 2
    /\ \A k \in 1..2 : ~WholeLineIn(<< gesture.header.before[k] >>, "row", gesture.header.index)
    /\ prevState.isSelecting.type = "remove"
    /\ selections # << >>

\* a line whose anchor cell was selected, but not all of it, was added
C13_AddOverPartReached ==
    /\ HeaderClicked(Options(FALSE, TRUE, FALSE, FALSE))
    /\ gesture.header.type = "col"
    /\ isSelectedIn(gesture.header.before, Cell(0, gesture.header.index))
    /\ prevState.isSelecting.type = "add"
    /\ Len(selections) = 3

-----------------------------------------------------------------------------
(* Specification SpecQuery: the queries about whole lines and the fill handle *)
(* on every small selection list                                              *)

QueryInit ==
    /\ \E size \in GridSizes :
        /\ numRows = size
        /\ numCols = size
    /\ groups = << >>
    /\ selections \in ListsUpTo(Areas, MaxSel)
    /\ hasFocus = FALSE
    /\ isSelecting = NoneSelecting
    /\ isEditing = NoneEditing
    /\ isHovering = NoneHovering
    /\ controlled = FALSE
    /\ prevState = ConstructedState
    /\ nextState = ConstructedState
    /\ patches = << >>
    /\ selAlias = 0
    /\ nextStateListeners = << >>
    /\ requestedStateListeners = << >>
    /\ behaviour = << >>
    /\ closures = {}
    /\ log = << >>
    /\ fillLog = << >>
    /\ updateLog = << >>
    /\ copyLog = 0
    /\ prevented = FALSE
    /\ thrown = ""
    /\ lastOp = Op("new", << >>)
    /\ gesture = NoGesture
    /\ steps = 0
    /\ fn = NoCall
    /\ held = NoSnapshot

\* isWholeRowSelected(index) for every row index of the model
CallIsWholeRowSelected ==
    /\ fn.name = "none"
    /\ fn' = [name |-> "isWholeRowSelected",
              result |-> {index \in Coords : isWholeRowSelected(index)}]
    /\ UNCHANGED managerVars

\* isWholeColSelected(index) for every column index of the model
CallIsWholeColSelected ==
    /\ fn.name = "none"
    /\ fn' = [name |-> "isWholeColSelected",
              result |-> {index \in Coords : isWholeColSelected(index)}]
    /\ UNCHANGED managerVars

\* getFillHandleBaseSelection()
CallGetFillHandleBaseSelection ==
    /\ fn.name = "none"
    /\ fn' = [name |-> "getFillHandleBaseSelection",
              result |-> getFillHandleBaseSelection]
    /\ UNCHANGED managerVars

\* canCellHaveFillHandle(cell) for every cell of the model
CallCanCellHaveFillHandle ==
    /\ fn.name = "none"
    /\ fn' = [name |-> "canCellHaveFillHandle",
              result |-> {cell \in Cells : canCellHaveFillHandle(cell)}]
    /\ UNCHANGED managerVars

QueryNext ==
    \/ CallIsWholeRowSelected
    \/ CallIsWholeColSelected
    \/ CallGetFillHandleBaseSelection
    \/ CallCanCellHaveFillHandle
    \* a cell is opened for editing before the queries, on the shorter lists
    \/ fn.name = "none" /\ Len(selections) < MaxSel /\ EditCell({Cell(0, 0)}, {"a"})

SpecQuery == QueryInit /\ [][QueryNext]_vars

\* C14: on a finite grid, for every selection list and every row index i of
\* the grid, isWholeRowSelected(i) is true exactly when every cell (i, c) with
\* 0 <= c < numCols is selected: pieces that touch or overlap count together,
\* a gap of one column makes it false.  The same for isWholeColSelected.
C14_WholeLineExact ==
    FiniteGrid =>
        /\ fn.name = "isWholeRowSelected" =>
               fn.result = {i \in Coords : WholeLineIn(selections, "row", i)}
        /\ fn.name = "isWholeColSelected" =>
               fn.result = {i \in Coords : WholeLineIn(selections, "col", i)}

\* two selections, neither spanning row 0 alone, that touch without
\* overlapping and make row 0 whole, the second listed before the first
C14_Witness ==
    /\ FiniteGrid
    /\ fn.name = "isWholeRowSelected"
    /\ 0 \in fn.result
    /\ Len(selections) = 2
    /\ CellsOf(selections[1]) \cap CellsOf(selections[2]) = {}
    /\ Cell(0, 0) \in CellsOf(selections[2])

\* a column with a gap of one cell in the middle
C14_GapReached ==
    /\ FiniteGrid
    /\ fn.name = "isWholeColSelected"
    /\ 1 \notin fn.result
    /\ isSelected(Cell(0, 1))
    /\ ~isSelected(Cell(1, 1))
    /\ isSelected(Cell(2, 1))

\* the cells of the bounding rectangle of the selections inside the grid
BoundingCells == CellsOf(getSelectionsBoundingRect) \cap GridCells

\* C15: getFillHandleBaseSelection() returns undefined for an empty list;
\* otherwise it returns the bounding rectangle of the selections exactly when
\* every cell of that rectangle is covered by a selection, and undefined
\* when a cell of it is uncovered.
C15_FillBaseIsCoveredBoundingRect ==
    fn.name = "getFillHandleBaseSelection" =>
        IF selections = << >> THEN fn.result = Undefined
        ELSE IF BoundingCells \subseteq CellsOfList(selections)
        THEN /\ fn.result.type # "undefined"
             /\ fn.result.start = getSelectionsBoundingRect.start
             /\ fn.result.end = getSelectionsBoundingRect.end
             /\ CellsOf(fn.result) \cap GridCells = CellsOfList(selections) \cap GridCells
        ELSE fn.result = Undefined

\* two selections, neither of them the bounding rectangle, that cover it together
C15_Witness ==
    /\ fn.name = "getFillHandleBaseSelection"
    /\ fn.result.type # "undefined"
    /\ Len(selections) = 2
    /\ \A k \in 1..2 : ~(BoundingCells \subseteq CellsOf(selections[k]))

\* an L-shaped pair: one cell of the bounding rectangle is uncovered
C15_UncoveredReached ==
    /\ fn.name = "getFillHandleBaseSelection"
    /\ fn.result = Undefined
    /\ Len(selections) = 2
    /\ Cardinality(BoundingCells \ CellsOfList(selections)) = 1

\* the bottom-right cells the fill handle may sit on: none while a cell is
\* being edited, none unless the selections make up a rectangle, none if that
\* rectangle ends at Infinity on either axis, else its bottom-right corner
FillHandleCells ==
    IF isEditing.type # "none" \/ selections = << >> THEN {}
    ELSE IF ~(BoundingCells \subseteq CellsOfList(selections)) THEN {}
    ELSE IF \/ getSelectionsBoundingRect.end.row.type = "infinity"
            \/ getSelectionsBoundingRect.end.col.type = "infinity"
    THEN {}
    ELSE {c \in BoundingCells : \A d \in BoundingCells : d.row <= c.row /\ d.col <= c.col}

\* C16: canCellHaveFillHandle(cell) is true exactly when no cell is being
\* edited, the selections have a rectangular union with a finite bottom-right
\* corner, and cell is that corner; false for every other cell and state.
C16_FillHandleOnlyAtCorner ==
    fn.name = "canCellHaveFillHandle" => fn.result = FillHandleCells

\* the corner of a rectangle that two selections make up carries the handle
C16_Witness ==
    /\ fn.name = "canCellHaveFillHandle"
    /\ Len(selections) = 2
    /\ fn.result = {Cell(1, 2)}
    /\ \A k \in 1..2 : ~(BoundingCells \subseteq CellsOf(selections[k]))

\* a rectangle while a cell is being edited: no cell carries the handle
C16_EditingReached ==
    /\ fn.name = "canCellHaveFillHandle"
    /\ isEditing.type = "cell"
    /\ selections # << >>
    /\ BoundingCells \subseteq CellsOfList(selections)
    /\ fn.result = {}

\* a rectangle that runs to Infinity: no cell carries the handle
C16_InfiniteReached ==
    /\ fn.name = "canCellHaveFillHandle"
    /\ isEditing.type = "none"
    /\ selections # << >>
    /\ BoundingCells \subseteq CellsOfList(selections)
    /\ getSelectionsBoundingRect.end.row.type = "infinity"
    /\ getSelectionsBoundingRect.end.col.type = "number"
    /\ fn.result = {}

-----------------------------------------------------------------------------
(* Specification SpecFill: a drag of the fill handle on an uncontrolled manager *)

\* one area of either corner order, or one of the seeded lists
FillSeeds == {<< a >> : a \in Areas} \cup SeedSelections

FillInit ==
    /\ \E size \in GridSizes :
        /\ numRows = size
        /\ numCols = size
    /\ groups = << >>
    /\ selections \in FillSeeds
    /\ hasFocus = FALSE
    /\ isSelecting = NoneSelecting
    /\ isEditing = NoneEditing
    /\ isHovering = NoneHovering
    /\ controlled = FALSE
    /\ prevState = ConstructedState
    /\ nextState = ConstructedState
    /\ patches = << >>
    /\ selAlias = 0
    /\ nextStateListeners = << >>
    /\ requestedStateListeners = << >>
    /\ behaviour = << >>
    /\ closures = {}
    /\ log = << >>
    /\ fillLog = << >>
    /\ updateLog = << >>
    /\ copyLog = 0
    /\ prevented = FALSE
    /\ thrown = ""
    /\ lastOp = Op("new", << >>)
    /\ gesture = NoGesture
    /\ steps = 0
    /\ fn = NoCall
    /\ held = NoSnapshot

\* the press lands on the cell that shows the fill handle, the pointer then
\* enters any cell or none, and the button is released
FillNext ==
    \/ /\ steps = 0
       /\ \E cell \in Cells :
            /\ canCellHaveFillHandle(cell)
            /\ CellMouseDown({cell}, {FillHandle})
    \/ /\ steps = 1
       /\ CellMouseEnter(Cells)
    \/ /\ steps > 0
       /\ MouseUp

SpecFill == FillInit /\ [][FillNext]_vars

\* mouseUp has just committed a fill candidate of the given event type
FillCommitted(eventType) ==
    /\ lastOp.name = "mouseUp"
    /\ prevState.isSelecting.type = "fill"
    /\ prevState.isSelecting.eventType = eventType

\* the candidate has a cell beyond the base on the named side
Exceeds(candidate, base, direction) ==
    \E c \in CellsOf(candidate) : \A b \in CellsOf(base) :
        CASE direction = "up" -> c.row < b.row
          [] direction = "down" -> c.row > b.row
          [] direction = "left" -> c.col < b.col
          [] direction = "right" -> c.col > b.col
          [] OTHER -> FALSE

\* C17: a committed Extend fill appends the candidate to the selections and
\* emits exactly one FillEvent of type extend whose seedRange is the base, whose
\* outputRange is the candidate, whose fillRange is exactly the cells of the
\* candidate outside the base, and whose direction names the side on which the
\* candidate exceeds the base
C17_ExtendFillEvent ==
    FillCommitted("extend") =>
        LET candidate == prevState.isSelecting
            base == getFillHandleBaseSelectionOf(prevState.selections)
        IN  /\ thrown = ""
            /\ selections = Append(prevState.selections,
                                   plainArea(candidate.start, candidate.end))
            /\ Len(fillLog) = 1
            /\ fillLog[1].type = "extend"
            /\ fillLog[1].seedRange = base
            /\ fillLog[1].outputRange = candidate
            /\ CellsOf(fillLog[1].fillRange) = CellsOf(candidate) \ CellsOf(base)
            /\ CellsOf(fillLog[1].fillRange) \cap CellsOf(fillLog[1].seedRange) = {}
            /\ Exceeds(candidate, base, fillLog[1].direction)

\* an Extend fill that grew the base upwards or to the left was committed and
\* its fillRange is the whole candidate, seed cells included
C17_SeedInFillRangeReached ==
    /\ FillCommitted("extend")
    /\ Len(fillLog) = 1
    /\ fillLog[1].direction \in {"up", "left"}
    /\ Exceeds(prevState.isSelecting, fillLog[1].seedRange, fillLog[1].direction)
    /\ CellsOf(fillLog[1].fillRange) = CellsOf(prevState.isSelecting)
    /\ CellsOf(fillLog[1].seedRange) \subseteq CellsOf(fillLog[1].fillRange)

\* what does hold of every committed Extend fill: the list, the event count and
\* the seed and output ranges
C17_ExtendAppendsAndEmitsOnce ==
    FillCommitted("extend") =>
        LET candidate == prevState.isSelecting
            base == getFillHandleBaseSelectionOf(prevState.selections)
        IN  /\ thrown = ""
            /\ selections = Append(prevState.selections,
                                   plainArea(candidate.start, candidate.end))
            /\ Len(fillLog) = 1
            /\ fillLog[1].type = "extend"
            /\ fillLog[1].seedRange = base
            /\ fillLog[1].outputRange = candidate

\* what does hold of the fillRange: exact when the candidate grew downwards or
\* to the right
C17_DownRightFillRangeExact ==
    (/\ FillCommitted("extend")
     /\ \E d \in {"down", "right"} :
            Exceeds(prevState.isSelecting,
                    getFillHandleBaseSelectionOf(prevState.selections), d)) =>
        CellsOf(fillLog[1].fillRange) =
            CellsOf(prevState.isSelecting)
                \ CellsOf(getFillHandleBaseSelectionOf(prevState.selections))

\* C18: a committed Shrink fill leaves exactly the cells of the candidate
\* selected and emits exactly one FillEvent of type shrink whose rangeToClear is
\* exactly the cells of the base outside the candidate, so that no cell of
\* rangeToClear is still selected
C18_ShrinkFillEvent ==
    FillCommitted("shrink") =>
        LET candidate == prevState.isSelecting
            base == getFillHandleBaseSelectionOf(prevState.selections)
        IN  /\ thrown = ""
            /\ SelectedCells(selections) = CellsOf(candidate)
            /\ Len(fillLog) = 1
            /\ fillLog[1].type = "shrink"
            /\ CellsOf(fillLog[1].rangeToClear) = CellsOf(base) \ CellsOf(candidate)
            /\ CellsOf(fillLog[1].rangeToClear) \cap SelectedCells(selections) = {}

\* the button was released on the fill-handle cell without a move and the
\* rangeToClear of the event is the whole base, every cell of it still selected
C18_ReleasedOnHandleReached ==
    /\ FillCommitted("shrink")
    /\ ~gesture.entered
    /\ Len(fillLog) = 1
    /\ CellsOf(fillLog[1].rangeToClear) # {}
    /\ CellsOf(fillLog[1].rangeToClear) \subseteq SelectedCells(selections)

\* what does hold of every committed Shrink fill: the selected cells and the
\* event count
C18_ShrinkSelectsCandidate ==
    FillCommitted("shrink") =>
        /\ thrown = ""
        /\ SelectedCells(selections) = CellsOf(prevState.isSelecting)
        /\ Len(fillLog) = 1
        /\ fillLog[1].type = "shrink"

\* what does hold of rangeToClear: exact when the candidate is smaller than the
\* base
C18_ProperShrinkExact ==
    (/\ FillCommitted("shrink")
     /\ CellsOf(prevState.isSelecting)
            # CellsOf(getFillHandleBaseSelectionOf(prevState.selections))) =>
        CellsOf(fillLog[1].rangeToClear) =
            CellsOf(getFillHandleBaseSelectionOf(prevState.selections))
                \ CellsOf(prevState.isSelecting)

-----------------------------------------------------------------------------
(* Specification SpecPatches: createPatches and applyPatches on pairs of     *)
(* snapshots.  The first snapshot is the state of the manager (getState()),  *)
(* the second is any snapshot.                                               *)

\* longest selection list of a snapshot
MaxSnapshotSel == 3

\* two areas, so that lists of MaxSnapshotSel areas repeat one
SnapshotAreas == {mkArea(0, 0, Num(1), Num(1)), mkArea(1, 0, INF, Num(2))}

Snapshots ==
    [hasFocus : BOOLEAN,
     selections : ListsUpTo(SnapshotAreas, MaxSnapshotSel),
     isSelecting : {NoneSelecting, mkSelecting("drag", Cell(0, 0), [row |-> Num(1), col |-> Num(1)])},
     isEditing : {NoneEditing, editingCell(0, 0, "a")},
     isHovering : {NoneHovering, hoveringCell(0, 0)}]

PatchesInit ==
    /\ numRows = INF
    /\ numCols = INF
    /\ groups = << >>
    /\ \E s \in Snapshots :
        /\ hasFocus = s.hasFocus
        /\ selections = s.selections
        /\ isSelecting = s.isSelecting
        /\ isEditing = s.isEditing
        /\ isHovering = s.isHovering
    /\ controlled = FALSE
    /\ prevState = ConstructedState
    /\ nextState = ConstructedState
    /\ patches = << >>
    /\ selAlias = 0
    /\ nextStateListeners = << >>
    /\ requestedStateListeners = << >>
    /\ behaviour = << >>
    /\ closures = {}
    /\ log = << >>
    /\ fillLog = << >>
    /\ updateLog = << >>
    /\ copyLog = 0
    /\ prevented = FALSE
    /\ thrown = ""
    /\ lastOp = Op("new", << >>)
    /\ gesture = NoGesture
    /\ steps = 0
    /\ fn = NoCall
    /\ held = NoSnapshot

\* createPatches(getState(), next)
CallCreatePatches ==
    /\ fn.name = "none"
    /\ \E next \in Snapshots :
        fn' = [name |-> "createPatches", prev |-> getState, next |-> next,
               result |-> createPatches(getState, next)]
    /\ UNCHANGED managerVars

\* applyPatches(prev, patches) with the patches createPatches has just returned
CallApplyPatches ==
    /\ fn.name = "createPatches"
    /\ fn' = [name |-> "applyPatches", prev |-> fn.prev, next |-> fn.next,
              patches |-> fn.result, result |-> applyPatches(fn.prev, fn.result)]
    /\ UNCHANGED managerVars

PatchesNext ==
    \/ CallCreatePatches
    \/ CallApplyPatches

SpecPatches == PatchesInit /\ [][PatchesNext]_vars

\* C19: applyPatches(s, createPatches(s, s2)) equals s2 on all five fields
C19_RoundTrip ==
    fn.name = "applyPatches" =>
        /\ fn.result.thrown = ""
        /\ \A key \in StateKeys : fn.result.value[key] = fn.next[key]

\* C19 witness: one of two equal areas was dropped from a list of three and the
\* diff was a single remove patch
C19_Witness ==
    /\ fn.name = "applyPatches"
    /\ Len(fn.prev.selections) = 3
    /\ fn.prev.selections[2] = fn.prev.selections[3]
    /\ fn.prev.selections[1] # fn.prev.selections[2]
    /\ \E i \in 1..Len(fn.patches) : fn.patches[i].op = "remove"
    /\ fn.result.value.selections = fn.next.selections

\* the other cases of the selections diff are applied as well
C19_ClearedReached ==
    /\ fn.name = "applyPatches"
    /\ fn.prev.selections # << >>
    /\ fn.next.selections = << >>
    /\ \E i \in 1..Len(fn.patches) :
           fn.patches[i] = Patch("replace", rootPath("selections"), << >>)

C19_AppendedReached ==
    /\ fn.name = "applyPatches"
    /\ Len(fn.prev.selections) = 2
    /\ fn.prev.selections[1] = fn.prev.selections[2]
    /\ \E i \in 1..Len(fn.patches) :
           fn.patches[i] = Patch("add", endPath, fn.prev.selections[1])

\* one list is the other without one of its duplicates: no index is found and
\* the whole array is replaced
C19_ReplacedReached ==
    /\ fn.name = "applyPatches"
    /\ Len(fn.prev.selections) = 3
    /\ Len(fn.next.selections) = 2
    /\ fn.prev.selections[1] = fn.prev.selections[2]
    /\ \E i \in 1..Len(fn.patches) :
           fn.patches[i] = Patch("replace", rootPath("selections"), fn.next.selections)

C19_EqualReached ==
    /\ fn.name = "applyPatches"
    /\ fn.prev.selections = fn.next.selections
    /\ fn.prev.selections # << >>
    /\ fn.patches # << >>

\* the place of a root field in the order createPatches looks at them
FieldRank(key) ==
    CASE key = "hasFocus" -> 1
      [] key = "selections" -> 2
      [] key = "isSelecting" -> 3
      [] key = "isEditing" -> 4
      [] key = "isHovering" -> 5

\* C20: createPatches(prev, next) has a patch addressing a root field exactly
\* when prev and next differ on it, at most one patch per field, in the order
\* hasFocus, selections, isSelecting, isEditing, isHovering; createPatches(s, s)
\* is the empty list
C20_OnePatchPerChangedField ==
    fn.name = "createPatches" =>
        LET list == fn.result
        IN  /\ \A i \in 1..Len(list) : list[i].path.root \in StateKeys
            /\ \A key \in StateKeys :
                   (\E i \in 1..Len(list) : list[i].path.root = key)
                       <=> fn.prev[key] # fn.next[key]
            /\ \A i \in 1..Len(list), j \in 1..Len(list) :
                   i < j => FieldRank(list[i].path.root) < FieldRank(list[j].path.root)
            /\ fn.prev = fn.next => list = << >>

\* C20 witness: the two snapshots differ on every field and five patches came back
C20_Witness ==
    /\ fn.name = "createPatches"
    /\ \A key \in StateKeys : fn.prev[key] # fn.next[key]
    /\ Len(fn.result) = 5

\* createPatches(s, s) was called on a snapshot with selections
C20_SameSnapshotReached ==
    /\ fn.name = "createPatches"
    /\ fn.prev = fn.next
    /\ Len(fn.prev.selections) = MaxSnapshotSel
    /\ fn.result = << >>

-----------------------------------------------------------------------------
(* Specification SpecApply: applyPatches on lists of patches of every        *)
(* operation.  The snapshot is the state of the manager (getState()).        *)

\* longest list of patches handed to applyPatches
MaxPatches == 3

AreaA == mkArea(0, 0, Num(1), Num(1))
AreaB == mkArea(1, 0, INF, Num(2))

\* the patches a list is made of: every operation, indexes inside and outside
\* the list, and two patches applyPatches has no case for
PatchValues ==
    << Patch("replace", rootPath("hasFocus"), TRUE),
       Patch("replace", rootPath("selections"), << AreaB >>),
       Patch("replace", rootPath("isEditing"), editingCell(0, 0, "a")),
       Patch("add", endPath, AreaA),
       Patch("test", rootPath("hasFocus"), TRUE),
       Patch("test", rootPath("selections"), << AreaA >>),
       Patch("test", indexPath(0), AreaA),
       Patch("replace", indexPath(0), AreaA),
       Patch("remove", rootPath("selections"), << >>),
       Patch("add", indexPath(0), AreaB),
       Patch("add", indexPath(1), AreaB),
       Patch("add", indexPath(2), AreaB),
       Patch("remove", indexPath(0), << >>),
       Patch("remove", indexPath(1), << >>),
       Patch("remove", indexPath(2), << >>) >>

\* the list of the patches with the given numbers
PatchList(ix) == [k \in 1..Len(ix) |-> PatchValues[ix[k]]]

ApplyInit ==
    /\ numRows = INF
    /\ numCols = INF
    /\ groups = << >>
    /\ hasFocus \in BOOLEAN
    /\ selections \in ListsUpTo({AreaA, AreaB}, MaxSel)
    /\ isSelecting = NoneSelecting
    /\ isEditing = NoneEditing
    /\ isHovering = NoneHovering
    /\ controlled = FALSE
    /\ prevState = ConstructedState
    /\ nextState = ConstructedState
    /\ patches = << >>
    /\ selAlias = 0
    /\ nextStateListeners = << >>
    /\ requestedStateListeners = << >>
    /\ behaviour = << >>
    /\ closures = {}
    /\ log = << >>
    /\ fillLog = << >>
    /\ updateLog = << >>
    /\ copyLog = 0
    /\ prevented = FALSE
    /\ thrown = ""
    /\ lastOp = Op("new", << >>)
    /\ gesture = NoGesture
    /\ steps = 0
    /\ fn = NoCall
    /\ held = NoSnapshot

\* applyPatches(getState(), list)
CallApplyPatchList ==
    /\ fn.name = "none"
    /\ \E ix \in ListsUpTo(1..Len(PatchValues), MaxPatches) :
        fn' = [name |-> "applyPatches", prev |-> getState, patches |-> PatchList(ix),
               result |-> applyPatches(getState, PatchList(ix)),
               objects |-> applyPatchesOnObjects(getState, PatchList(ix))]
    /\ UNCHANGED managerVars

ApplyNext == CallApplyPatchList

SpecApply == ApplyInit /\ [][ApplyNext]_vars

\* the result of applyPatches on the first n patches of the call
AfterPatches(n) == applyPatches(fn.prev, SubSeq(fn.patches, 1, n))

\* what one patch does to a snapshot, for the cases the interface names
PatchDoes(patch, before, after) ==
    LET old == before.selections
        new == after.selections
        n == patch.path.index
        frame == \A key \in StateKeys \ {"selections"} : after[key] = before[key]
    IN  IF patch.op = "replace"
        THEN after = [before EXCEPT ![patch.path.root] = patch.value]
        ELSE IF patch.op = "add" /\ patch.path.rest = "-"
        THEN frame /\ new = Append(old, patch.value)
        ELSE IF patch.op = "add" /\ n <= Len(old)
        THEN /\ frame
             /\ Len(new) = Len(old) + 1
             /\ new[n + 1] = patch.value
             /\ \A k \in 1..n : new[k] = old[k]
             /\ \A k \in (n + 2)..Len(new) : new[k] = old[k - 1]
        ELSE IF patch.op = "remove" /\ n < Len(old)
        THEN /\ frame
             /\ Len(new) = Len(old) - 1
             /\ \A k \in 1..n : new[k] = old[k]
             /\ \A k \in (n + 1)..Len(new) : new[k] = old[k + 1]
        ELSE frame

\* C21: applyPatches leaves the snapshot it is given as it was, also when it
\* throws, returns another object, and applies the patches in list order, each
\* with the effect of its operation
C21_ApplyLeavesInput ==
    fn.name = "applyPatches" =>
        /\ fn.objects.input = fn.prev
        /\ fn.objects.thrown = fn.result.thrown
        /\ fn.result.thrown = "" =>
               /\ fn.objects.returned # "input"
               /\ fn.objects.newState = fn.result.value
        /\ \A i \in 1..Len(fn.patches) :
               AfterPatches(i).thrown = "" =>
                   /\ AfterPatches(i - 1).thrown = ""
                   /\ PatchDoes(fn.patches[i], AfterPatches(i - 1).value,
                                AfterPatches(i).value)

\* C21 witness: an insert at an index and a removal at an index were applied to
\* a snapshot with selections, and the result has other selections
C21_Witness ==
    /\ fn.name = "applyPatches"
    /\ fn.result.thrown = ""
    /\ Len(fn.prev.selections) = 2
    /\ \E i \in 1..Len(fn.patches) :
           fn.patches[i].op = "add" /\ fn.patches[i].path.rest = "index"
    /\ \E i \in 1..Len(fn.patches) : fn.patches[i].op = "remove"
    /\ fn.result.value.selections # fn.prev.selections

\* the call threw after a removal at an index had been applied
C21_ErrorReached ==
    /\ fn.name = "applyPatches"
    /\ fn.result.thrown # ""
    /\ Len(fn.patches) > 1
    /\ fn.prev.selections # << >>
    /\ fn.patches[1].op = "remove"
    /\ fn.patches[1].path = indexPath(0)
    /\ fn.objects.newState # fn.prev

\* the list without its i-th patch
WithoutPatch(list, i) == SubSeq(list, 1, i - 1) \o SubSeq(list, i + 1, Len(list))

\* C22: a test patch whose value differs from the current value at its path
\* ends the call with an error and no snapshot, whatever follows it; a test
\* patch whose value matches changes nothing and the call goes on as if the
\* patch were not in the list
C22_TestPatchAborts ==
    fn.name = "applyPatches" =>
        \A i \in 1..Len(fn.patches) :
            (fn.patches[i].op = "test" /\ AfterPatches(i - 1).thrown = "") =>
                IF getValue(AfterPatches(i - 1).value, fn.patches[i].path)
                       # fn.patches[i].value
                THEN /\ fn.result = Throw("Test failed")
                     /\ fn.objects.newState = AfterPatches(i - 1).value
                ELSE /\ AfterPatches(i) = AfterPatches(i - 1)
                     /\ fn.result = applyPatches(fn.prev, WithoutPatch(fn.patches, i))

\* C22 witness: the second patch is a test that fails on the value the first
\* patch has just written, and a third patch follows it
C22_Witness ==
    /\ fn.name = "applyPatches"
    /\ Len(fn.patches) = 3
    /\ fn.patches[1].op = "replace"
    /\ fn.patches[1].path = rootPath("selections")
    /\ fn.patches[2].op = "test"
    /\ fn.patches[2].path = rootPath("selections")
    /\ fn.patches[3].op = "add"
    /\ fn.prev.selections = << AreaA >>
    /\ fn.result = Throw("Test failed")

\* a test that matches is followed by a patch that changes the snapshot
C22_MatchReached ==
    /\ fn.name = "applyPatches"
    /\ Len(fn.patches) = 2
    /\ fn.patches[1].op = "test"
    /\ fn.patches[1].path = indexPath(0)
    /\ fn.patches[2].op = "remove"
    /\ fn.patches[2].path = indexPath(0)
    /\ fn.result.thrown = ""
    /\ Len(fn.result.value.selections) = Len(fn.prev.selections) - 1

-----------------------------------------------------------------------------
(* Specification SpecArrows: Enter, Tab and the arrow keys, with and without *)
(* shift, on an uncontrolled manager with one committed listener             *)

\* an uncontrolled manager nothing has been called on yet, with the given
\* committed listeners, none of which touches the manager
UncontrolledWith(listeners) ==
    /\ groups = << >>
    /\ controlled = FALSE
    /\ prevState = ConstructedState
    /\ nextState = ConstructedState
    /\ patches = << >>
    /\ selAlias = 0
    /\ nextStateListeners = listeners
    /\ requestedStateListeners = << >>
    /\ behaviour = [k \in 1..Len(listeners) |-> Quiet]
    /\ closures = {[list |-> "nextStateListeners", callback |-> listeners[k]] :
                      k \in 1..Len(listeners)}
    /\ log = << >>
    /\ fillLog = << >>
    /\ updateLog = << >>
    /\ copyLog = 0
    /\ prevented = FALSE
    /\ thrown = ""
    /\ lastOp = Op("new", << >>)
    /\ gesture = NoGesture
    /\ steps = 0
    /\ fn = NoCall

NavigationKeys == ArrowKeys \cup {"Enter", "Tab"}
NavigationEvents ==
    {KeyboardEvent(key, shiftKey, FALSE, FALSE) :
        key \in NavigationKeys, shiftKey \in BOOLEAN}

ArrowsInit ==
    /\ numRows \in GridSizes
    /\ numCols \in GridSizes
    /\ selections \in FillSeeds
    /\ hasFocus = TRUE
    /\ isSelecting = NoneSelecting
    /\ isEditing = NoneEditing
    /\ isHovering = NoneHovering
    /\ UncontrolledWith(<< Owner >>)
    /\ held = NoSnapshot

ArrowsNext ==
    /\ steps < MaxOps - 1
    /\ HandleKeyDown(NavigationEvents)

SpecArrows == ArrowsInit /\ [][ArrowsNext]_vars

\* the event of the handleKeyDown that has just returned
KeyPressed == lastOp.a[1]

\* the direction a navigation event stands for, as a step in rows and columns
StepOf(event) ==
    LET key == IF event.key = "Enter"
               THEN IF event.shiftKey THEN "ArrowUp" ELSE "ArrowDown"
               ELSE IF event.key = "Tab"
               THEN IF event.shiftKey THEN "ArrowLeft" ELSE "ArrowRight"
               ELSE event.key
    IN  CASE key = "ArrowUp" -> [row |-> 0 - 1, col |-> 0]
          [] key = "ArrowDown" -> [row |-> 1, col |-> 0]
          [] key = "ArrowLeft" -> [row |-> 0, col |-> 0 - 1]
          [] key = "ArrowRight" -> [row |-> 0, col |-> 1]

\* an index of the grid along an axis of the given size
InAxis(n, size) == n >= 0 /\ (size.type = "infinity" \/ n <= size.value - 1)

\* the event moves or collapses: an arrow without shift, Enter or Tab
Collapsing(event) ==
    /\ event.key \in NavigationKeys
    /\ ~event.ctrlKey /\ ~event.metaKey
    /\ event.key \in ArrowKeys => ~event.shiftKey

\* C23: with no modifier and no cell edited, an arrow key, Enter or Tab replaces
\* the selections by the single cell one step from the start corner of the last
\* selection (from (0,0) when there is none); when that cell is outside the grid
\* the state stays as it was and no listener is called
C23_ArrowCollapsesToNeighbour ==
    (/\ lastOp.name = "handleKeyDown"
     /\ Collapsing(KeyPressed)
     /\ prevState.isEditing.type = "none") =>
        LET before == prevState.selections
            from == IF before = << >> THEN Cell(0, 0) ELSE before[Len(before)].start
            row == from.row + StepOf(KeyPressed).row
            col == from.col + StepOf(KeyPressed).col
        IN  /\ thrown = ""
            /\ IF InAxis(row, numRows) /\ InAxis(col, numCols)
               THEN getState = [prevState EXCEPT
                                   !.selections = << mkArea(row, col, Num(row), Num(col)) >>]
               ELSE getState = prevState /\ log = << >>

\* C23 witness: Shift+Tab replaced two selections by the cell to the left of the
\* start corner of the last one
C23_Witness ==
    /\ lastOp.name = "handleKeyDown"
    /\ KeyPressed.key = "Tab" /\ KeyPressed.shiftKey
    /\ Len(prevState.selections) = 2
    /\ Len(selections) = 1
    /\ selections[1].start.col = prevState.selections[2].start.col - 1
    /\ Len(log) = 1

\* ArrowDown on the last row of a finite grid left everything as it was
C23_EdgeReached ==
    /\ lastOp.name = "handleKeyDown"
    /\ KeyPressed.key = "ArrowDown" /\ ~KeyPressed.shiftKey
    /\ numRows.type = "number"
    /\ prevState.selections # << >>
    /\ prevState.selections[Len(prevState.selections)].start.row = numRows.value - 1
    /\ getState = prevState
    /\ log = << >>

\* Shift+Arrow was pressed with a selection and no cell edited
ShiftArrowPressed ==
    /\ lastOp.name = "handleKeyDown"
    /\ KeyPressed.key \in ArrowKeys
    /\ KeyPressed.shiftKey
    /\ prevState.selections # << >>
    /\ prevState.isEditing.type = "none"

\* the end corner is inside the grid: a row and column of it, or Infinite on
\* an axis without bound
EndInside(end) ==
    /\ IF end.row.type = "infinity" THEN numRows.type = "infinity"
       ELSE InAxis(end.row.value, numRows)
    /\ IF end.col.type = "infinity" THEN numCols.type = "infinity"
       ELSE InAxis(end.col.value, numCols)

\* the end corner one step further, if it can move: its coordinate on the axis
\* of the arrow is a number and the next index is in the grid
MovedEnd(end, event) ==
    LET step == StepOf(event)
        onRows == step.row # 0
        at == IF onRows THEN end.row ELSE end.col
        to == at.value + (IF onRows THEN step.row ELSE step.col)
    IN  IF at.type = "number" /\ InAxis(to, IF onRows THEN numRows ELSE numCols)
        THEN [can |-> TRUE,
              end |-> IF onRows THEN [end EXCEPT !.row = Num(to)]
                      ELSE [end EXCEPT !.col = Num(to)]]
        ELSE [can |-> FALSE, end |-> end]

\* C24: Shift+Arrow with a selection changes only the end corner of the last
\* selection, by one step along the axis of the arrow, and the end corner stays
\* inside the grid; when the end corner cannot move (grid edge or Infinite) the
\* state stays as it was and no listener is called
C24_ShiftArrowExtends ==
    (ShiftArrowPressed
     /\ EndInside(prevState.selections[Len(prevState.selections)].end)) =>
        LET before == prevState.selections
            moved == MovedEnd(before[Len(before)].end, KeyPressed)
        IN  /\ thrown = ""
            /\ EndInside(selections[Len(selections)].end)
            /\ IF moved.can
               THEN getState = [prevState EXCEPT
                                   !.selections[Len(before)].end = moved.end]
               ELSE getState = prevState /\ log = << >>

\* Shift+ArrowUp or Shift+ArrowLeft on an Infinite end left the state as it was
\* and the committed listener was called all the same
C24_NotifiedUnmovedReached ==
    /\ ShiftArrowPressed
    /\ KeyPressed.key \in {"ArrowUp", "ArrowLeft"}
    /\ getState = prevState
    /\ Len(log) = 1
    /\ prevented

\* what does hold of Shift+Arrow: the state is as the claim says in every case,
\* and the listener is left alone when a number end is at the grid edge or an
\* Infinite end is asked to grow
C24_ShiftArrowState ==
    (ShiftArrowPressed
     /\ EndInside(prevState.selections[Len(prevState.selections)].end)) =>
        LET before == prevState.selections
            end == before[Len(before)].end
            moved == MovedEnd(end, KeyPressed)
            at == IF StepOf(KeyPressed).row # 0 THEN end.row ELSE end.col
        IN  /\ thrown = ""
            /\ EndInside(selections[Len(selections)].end)
            /\ getState = [prevState EXCEPT !.selections[Len(before)].end = moved.end]
            /\ (~moved.can /\ (at.type = "number"
                               \/ KeyPressed.key \in {"ArrowDown", "ArrowRight"}))
                   => log = << >>

-----------------------------------------------------------------------------
(* Specification SpecShortcuts: every branch of handleKeyDown, also while a  *)
(* cell is being edited                                                      *)

ShortcutKeys ==
    {"a", "A", "c", "x", "Delete", "Backspace", "F2", "ArrowUp", "ArrowRight",
     "Enter", "Tab", "b"}

\* no modifier, shift, ctrl, meta, ctrl+shift
Modifiers ==
    {[shiftKey |-> FALSE, ctrlKey |-> FALSE, metaKey |-> FALSE],
     [shiftKey |-> TRUE, ctrlKey |-> FALSE, metaKey |-> FALSE],
     [shiftKey |-> FALSE, ctrlKey |-> TRUE, metaKey |-> FALSE],
     [shiftKey |-> FALSE, ctrlKey |-> FALSE, metaKey |-> TRUE],
     [shiftKey |-> TRUE, ctrlKey |-> TRUE, metaKey |-> FALSE]}

ShortcutEvents ==
    {KeyboardEvent(key, m.shiftKey, m.ctrlKey, m.metaKey) :
        key \in ShortcutKeys, m \in Modifiers} \cup {Escape}

\* areas from the first cell to the last index the model has, or to Infinity
OriginAreas == {mkArea(0, 0, er, ec) : er \in {Num(MaxCoord), INF},
                                       ec \in {Num(MaxCoord), INF}}

ShortcutSeeds ==
    SeedSelections \cup {<< a >> : a \in OriginAreas}
        \cup {<< mkArea(1, 1, Num(2), Num(1)), a >> : a \in OriginAreas}

ShortcutsInit ==
    /\ numRows \in GridSizes
    /\ numCols \in GridSizes
    /\ selections \in ShortcutSeeds
    /\ hasFocus = TRUE
    /\ isSelecting = NoneSelecting
    /\ isEditing = NoneEditing
    /\ isHovering = NoneHovering
    /\ UncontrolledWith(<< Owner >>)
    /\ held = NoSnapshot

ShortcutsNext ==
    \/ steps < MaxOps - 1 /\ HandleKeyDown(ShortcutEvents)
    \/ steps < MaxOps - 1 /\ EditCell({Cell(0, 0)}, {"a"})

SpecShortcuts == ShortcutsInit /\ [][ShortcutsNext]_vars

\* Ctrl+A or Cmd+A was pressed with no cell edited
SelectAllPressed ==
    /\ lastOp.name = "handleKeyDown"
    /\ KeyPressed.key \in {"a", "A"}
    /\ KeyPressed.ctrlKey \/ KeyPressed.metaKey
    /\ prevState.isEditing.type = "none"

\* the last index of an axis, Infinite when the axis has no bound
LastOf(size) == IF size.type = "infinity" THEN INF ELSE Num(size.value - 1)

\* C25: Ctrl/Cmd+A replaces the selections by the one area from (0,0) to the
\* last row and column, Infinite on an unbounded axis; if an area with those
\* corners is in the list already, nothing changes and no listener is called
C25_SelectAll ==
    SelectAllPressed =>
        LET before == prevState.selections
            there == \E i \in 1..Len(before) :
                         /\ before[i].start = Cell(0, 0)
                         /\ before[i].end = [row |-> LastOf(numRows), col |-> LastOf(numCols)]
        IN  /\ thrown = ""
            /\ IF there
               THEN getState = prevState /\ log = << >>
               ELSE getState = [prevState EXCEPT
                                   !.selections = << mkArea(0, 0, LastOf(numRows),
                                                            LastOf(numCols)) >>]

\* C25 witness: Ctrl+A pressed a second time, on a grid with a finite and an
\* unbounded axis, changed nothing and called no listener
C25_Witness ==
    /\ SelectAllPressed
    /\ steps = 2
    /\ numRows.type = "number" /\ numCols.type = "infinity"
    /\ prevState.selections = << mkArea(0, 0, LastOf(numRows), INF) >>
    /\ nextState.selections = prevState.selections
    /\ getState = prevState
    /\ log = << >>

\* the whole grid was second in a list of two and the list was left alone
C25_AmongOthersReached ==
    /\ SelectAllPressed
    /\ Len(prevState.selections) = 2
    /\ getState = prevState
    /\ log = << >>

\* an area with Infinite ends on a finite grid was replaced by the finite one
C25_ReplacedReached ==
    /\ SelectAllPressed
    /\ numRows.type = "number" /\ numCols.type = "number"
    /\ prevState.selections = << mkArea(0, 0, INF, INF) >>
    /\ selections = << mkArea(0, 0, LastOf(numRows), LastOf(numCols)) >>
    /\ Len(log) = 1

C26_EscapeReached ==
    /\ lastOp.name = "handleKeyDown"
    /\ prevState.isEditing.type = "cell"
    /\ KeyPressed.key = "Escape"
    /\ isEditing.type = "none"
    /\ selections = prevState.selections

-----------------------------------------------------------------------------
(* Specification SpecClear: Delete, Backspace, Cut, Copy and                 *)
(* forEachSelectedCell on every selection list                               *)

ClearEvents ==
    {KeyboardEvent("Delete", FALSE, FALSE, FALSE),
     KeyboardEvent("Backspace", FALSE, FALSE, FALSE),
     KeyboardEvent("x", FALSE, TRUE, FALSE),
     KeyboardEvent("X", FALSE, FALSE, TRUE),
     KeyboardEvent("c", FALSE, TRUE, FALSE)}

ClearInit ==
    /\ \E size \in GridSizes :
        /\ numRows = size
        /\ numCols = size
    /\ selections \in ListsUpTo(Areas, MaxSel)
    /\ hasFocus = TRUE
    /\ isSelecting = NoneSelecting
    /\ isEditing = NoneEditing
    /\ isHovering = NoneHovering
    /\ UncontrolledWith(<< Owner >>)
    /\ held = NoSnapshot

\* forEachSelectedCell(callback)
CallForEachSelectedCell ==
    /\ fn.name = "none"
    /\ fn' = [name |-> "forEachSelectedCell", result |-> forEachSelectedCell]
    /\ UNCHANGED managerVars

ClearNext ==
    \/ steps = 0 /\ fn.name = "none" /\ HandleKeyDown(ClearEvents)
    \/ steps = 0 /\ CallForEachSelectedCell

SpecClear == ClearInit /\ [][ClearNext]_vars

\* Delete, Backspace or Cut was pressed with a selection and no cell edited
ClearPressed ==
    /\ lastOp.name = "handleKeyDown"
    /\ KeyPressed.key \in {"Delete", "Backspace", "x", "X"}
    /\ prevState.selections # << >>
    /\ prevState.isEditing.type = "none"

\* a selection has an Infinite end on an axis that has no bound
InfiniteSelected(sels) ==
    \E i \in 1..Len(sels) :
        \/ sels[i].end.row.type = "infinity" /\ numRows.type = "infinity"
        \/ sels[i].end.col.type = "infinity" /\ numCols.type = "infinity"

\* the batch names each of the cells once, each with the empty value
ClearsExactly(updates, cells) ==
    /\ {Cell(updates[k].rowIndex, updates[k].colIndex) : k \in 1..Len(updates)} = cells
    /\ \A j \in 1..Len(updates), k \in 1..Len(updates) :
           (j # k) => \/ updates[j].rowIndex # updates[k].rowIndex
                      \/ updates[j].colIndex # updates[k].colIndex
    /\ \A k \in 1..Len(updates) : updates[k].value = ""

\* C27: Delete, Backspace and Cut with a finite selection hand every cell-update
\* listener one batch with each selected cell once and the empty value, and
\* leave the five fields; Copy calls the copy listeners and changes no field
C27_ClearEmitsEachCellOnce ==
    /\ (ClearPressed /\ ~InfiniteSelected(prevState.selections)) =>
           /\ thrown = ""
           /\ getState = prevState
           /\ Len(updateLog) = Len(listenToUpdateDataListeners)
           /\ \A k \in 1..Len(updateLog) :
                  /\ updateLog[k].listener = listenToUpdateDataListeners[k]
                  /\ ClearsExactly(updateLog[k].updates,
                                   SelectedCells(prevState.selections) \cap GridCells)
           /\ copyLog = IF KeyPressed.key \in {"x", "X"}
                        THEN Len(listenToCopyListeners) ELSE 0
    /\ (/\ lastOp.name = "handleKeyDown"
        /\ KeyPressed.key = "c"
        /\ prevState.selections # << >>) =>
           /\ thrown = ""
           /\ getState = prevState
           /\ copyLog = Len(listenToCopyListeners)
           /\ updateLog = << >>
           /\ log = << >>

\* C27 witness: Delete with two overlapping selections, one of them with its
\* end before its start
C27_Witness ==
    /\ ClearPressed
    /\ KeyPressed.key = "Delete"
    /\ Len(prevState.selections) = 2
    /\ CellsOf(prevState.selections[1]) \cap CellsOf(prevState.selections[2]) # {}
    /\ prevState.selections[1].end.row.type = "number"
    /\ prevState.selections[1].end.row.value < prevState.selections[1].start.row
    /\ Len(updateLog) = 2
    /\ Len(updateLog[1].updates) > 1

\* Cut on a finite grid with an Infinite end in the selections
C27_CutNormalisedReached ==
    /\ ClearPressed
    /\ KeyPressed.key = "x"
    /\ numRows.type = "number"
    /\ prevState.selections[1].end.row.type = "infinity"
    /\ copyLog = 1
    /\ Len(updateLog) = 2

C27_CopyReached ==
    /\ lastOp.name = "handleKeyDown"
    /\ KeyPressed.key = "c"
    /\ InfiniteSelected(prevState.selections)
    /\ copyLog = 1

\* C28: forEachSelectedCell and Delete, Backspace and Cut on a selection with an
\* Infinite end on an unbounded axis throw 'Cannot iterate over infinite
\* selections' before the callback or a cell-update listener is called, and
\* leave the five fields
C28_InfiniteIterationThrows ==
    /\ (fn.name = "forEachSelectedCell" /\ InfiniteSelected(selections)) =>
           /\ fn.result.thrown = "Cannot iterate over infinite selections"
           /\ fn.result.calls = << >>
    /\ (ClearPressed /\ InfiniteSelected(prevState.selections)) =>
           /\ thrown = "Cannot iterate over infinite selections"
           /\ updateLog = << >>
           /\ getState = prevState

\* C28 witness: the first selection is finite and the second has an Infinite
\* end, and forEachSelectedCell threw
C28_Witness ==
    /\ fn.name = "forEachSelectedCell"
    /\ Len(selections) = 2
    /\ ~InfiniteSelected(<< selections[1] >>)
    /\ InfiniteSelected(<< selections[2] >>)
    /\ CellsOf(selections[1]) \cap CellsOf(selections[2]) = {}
    /\ fn.result.thrown # ""

\* Cut threw after the copy listener had been called
C28_CutThrewReached ==
    /\ ClearPressed
    /\ KeyPressed.key = "x"
    /\ InfiniteSelected(prevState.selections)
    /\ thrown # ""
    /\ copyLog = 1
    /\ prevented

\* forEachSelectedCell on finite selections called the callback
C28_FiniteIteratedReached ==
    /\ fn.name = "forEachSelectedCell"
    /\ numRows.type = "number"
    /\ Len(selections) = 1
    /\ selections[1].end.row.type = "infinity"
    /\ fn.result.thrown = ""
    /\ Len(fn.result.calls) > 0

-----------------------------------------------------------------------------
(* Specification SpecHeld: a state object obtained from getState() or by a   *)
(* committed listener, and the entry points called afterwards                *)

\* getState(): the caller keeps the object it is given
GetState ==
    /\ ~held.taken
    /\ held' = [taken |-> TRUE, keeps |-> held.keeps, via |-> "getState",
                original |-> getState, now |-> getState]
    /\ UNCHANGED << numRows, numCols, groups, hasFocus, selections, isSelecting,
                    isEditing, isHovering, controlled, prevState, nextState, patches,
                    selAlias, nextStateListeners, requestedStateListeners, behaviour,
                    closures, log, fillLog, updateLog, copyLog, prevented, thrown,
                    lastOp, gesture, steps, fn >>

\* Shift+Arrow and Ctrl+Shift+Arrow
HeldEvents ==
    {KeyboardEvent(key, TRUE, ctrlKey, FALSE) : key \in ArrowKeys, ctrlKey \in BOOLEAN}

HeldInit ==
    /\ \E size \in GridSizes :
        /\ numRows = size
        /\ numCols = size
    /\ selections \in SeedSelections
    /\ hasFocus = TRUE
    /\ isSelecting = NoneSelecting
    /\ isEditing = NoneEditing
    /\ isHovering = NoneHovering
    /\ held \in {NoSnapshot, [NoSnapshot EXCEPT !.keeps = TRUE]}
    /\ UncontrolledWith(<< Owner >>)

HeldNext ==
    \/ GetState
    \/ CellMouseDown(CornerCells, KeyOptions)
    \/ MouseUp
    \/ HandleKeyDown(HeldEvents)

SpecHeld == HeldInit /\ [][HeldNext]_vars

\* C29: a state object returned by getState() or handed to a committed listener
\* keeps its selections, as a list and area by area, whatever entry point runs
\* afterwards
C29_SnapshotKeepsValue ==
    held.taken => held.now.selections = held.original.selections

\* the object returned by getState() lost its selections in a plain press
C29_EmptiedByPressReached ==
    /\ held.taken
    /\ held.via = "getState"
    /\ steps = 1
    /\ lastOp.name = "cellMouseDown"
    /\ lastOp.a[3] = NoKeys
    /\ held.original.selections # << >>
    /\ held.now.selections = << >>

\* a shift press removed the last area from the object
C29_SplicedByShiftPressReached ==
    /\ held.taken
    /\ steps = 1
    /\ lastOp.name = "cellMouseDown"
    /\ lastOp.a[3].shiftKey
    /\ Len(held.now.selections) = Len(held.original.selections) - 1

\* mouseUp added an area to the object a committed listener was given
C29_PushedByMouseUpReached ==
    /\ held.taken
    /\ held.via = "listener"
    /\ lastOp.name = "mouseUp"
    /\ Len(held.now.selections) = Len(held.original.selections) + 1

\* Shift+Arrow moved the end corner of an area inside the object
C29_MovedByShiftArrowReached ==
    /\ held.taken
    /\ steps = 1
    /\ lastOp.name = "handleKeyDown"
    /\ ~KeyPressed.ctrlKey
    /\ Len(held.now.selections) = Len(held.original.selections)
    /\ held.now.selections # held.original.selections

\* Ctrl+Shift+Arrow moved the end corner of an area inside the object
C29_MovedByEdgeKeyReached ==
    /\ held.taken
    /\ steps = 1
    /\ lastOp.name = "handleKeyDown"
    /\ KeyPressed.ctrlKey
    /\ Len(held.now.selections) = Len(held.original.selections)
    /\ held.now.selections # held.original.selections

-----------------------------------------------------------------------------
(* Specification SpecSetState: setState(p) with every choice of keys in p    *)

StateFields == {"hasFocus", "selections", "isSelecting", "isEditing", "isHovering"}

\* the objects handed to setState: some of the five keys, each with a value
PartialStates ==
    [provided : SUBSET StateFields,
     value : [hasFocus : BOOLEAN,
              selections : {<< >>, << AreaA >>, << AreaB, AreaA >>},
              isSelecting : {NoneSelecting,
                             [NoneSelecting EXCEPT !.type = "drag",
                                                   !.start = Cell(1, 1),
                                                   !.end = [row |-> Num(2), col |-> Num(1)]]},
              isEditing : {NoneEditing, editingCell(1, 0, "a")},
              isHovering : {NoneHovering, hoveringCell(0, 1)}]]

\* setState(p), called by the owner of the manager: no willMaybeUpdate(), no
\* onUpdate().  The array p gives for selections becomes this.selections.
SetState(states) ==
    \E p \in states :
        LET next == setStatePartial(getState, p)
            assigned == "selections" \in p.provided
        IN  /\ steps < MaxOps
            /\ steps' = steps + 1
            /\ lastOp' = Op("setState", << p, getState >>)
            /\ hasFocus' = next.hasFocus
            /\ selections' = next.selections
            /\ isSelecting' = next.isSelecting
            /\ isEditing' = next.isEditing
            /\ isHovering' = next.isHovering
            /\ selAlias' = IF assigned THEN 0 ELSE selAlias
            /\ held' = IF assigned THEN [NoSnapshot EXCEPT !.keeps = held.keeps] ELSE held
            /\ log' = << >>
            /\ fillLog' = << >>
            /\ updateLog' = << >>
            /\ copyLog' = 0
            /\ prevented' = FALSE
            /\ thrown' = ""
            /\ UNCHANGED << numRows, numCols, groups, controlled, prevState, nextState,
                            patches, nextStateListeners, requestedStateListeners,
                            behaviour, closures, gesture, fn >>

SetStateInit ==
    /\ \E size \in GridSizes :
        /\ numRows = size
        /\ numCols = size
    /\ selections \in {<< >>, << AreaB >>}
    /\ hasFocus \in BOOLEAN
    /\ isSelecting = NoneSelecting
    /\ isEditing \in {NoneEditing, editingCell(0, 0, "b")}
    /\ isHovering \in {NoneHovering, hoveringCell(2, 2)}
    /\ held = NoSnapshot
    /\ UncontrolledWith(<< Owner >>)

SetStateNext == steps = 0 /\ SetState(PartialStates)

SpecSetState == SetStateInit /\ [][SetStateNext]_vars

\* the object handed to the last setState, and what getState() returned before it
SetStateArg == lastOp.a[1]
BeforeSetState == lastOp.a[2]

\* what the claim expects getState() to return for a field after setState(p)
Expected(field) ==
    IF field \in SetStateArg.provided THEN SetStateArg.value[field]
    ELSE BeforeSetState[field]

\* C30: after setState(p), getState() returns for each of the five fields the
\* value p gives it, and the value it had before for a field p does not give
C30_SetStateThenGetState ==
    lastOp.name = "setState" => \A field \in StateFields : getState[field] = Expected(field)

\* setState was given a full snapshot with another isEditing than the live one,
\* and isEditing kept the live value
C30_EditingIgnoredReached ==
    /\ lastOp.name = "setState"
    /\ SetStateArg.provided = StateFields
    /\ SetStateArg.value.isEditing # BeforeSetState.isEditing
    /\ isEditing = BeforeSetState.isEditing
    /\ getState # SetStateArg.value

\* the four fields other than isEditing are as the claim says
C30_OtherFieldsSet ==
    lastOp.name = "setState" =>
        \A field \in StateFields \ {"isEditing"} : getState[field] = Expected(field)

-----------------------------------------------------------------------------
(* Paste and file drop: part_002 lines 2574-2646, part_001 lines 80-190.     *)
(* A text is kept as its lines, each line as the values between its tabs;    *)
(* the values are not formatted numbers.                                     *)

\* the longest text in lines and in values per line
MaxLines == 3

RECURSIVE parseLinesFrom(_, _)
\* lines.forEach of parseCSVContent: a line with no non-empty value yields no
\* cell, and the lines after it keep their row index
parseLinesFrom(content, i) ==
    IF i > Len(content) THEN << >>
    ELSE (IF \E k \in 1..Len(content[i]) : content[i][k] # ""
          THEN [k \in 1..Len(content[i]) |->
                   [rowIndex |-> i - 1, colIndex |-> k - 1, value |-> content[i][k]]]
          ELSE << >>) \o parseLinesFrom(content, i + 1)

parseCSVContent(content) == parseLinesFrom(content, 1)

\* the empty string: one line with one empty value
EmptyText == << << "" >> >>

\* startPosition ?? this.getTopLeftCellInSelection() ?? { row: 0, col: 0 }
firstCellOf(startPosition, topLeft) ==
    IF startPosition.type # "undefined" THEN startPosition
    ELSE IF topLeft.type # "undefined" THEN topLeft
    ELSE [type |-> "cell", row |-> 0, col |-> 0]

\* data.forEach of insertParsedData (lines 2587-2608): the updates pushed
updatesFrom(data, firstCell) ==
    LET target(k) == [rowIndex |-> firstCell.row + data[k].rowIndex,
                      colIndex |-> firstCell.col + data[k].colIndex,
                      value |-> data[k].value]
        kept(update) == /\ ~gt(Num(update.rowIndex), numRows)
                        /\ ~gt(Num(update.colIndex), numCols)
    IN  SelectSeq([k \in 1..Len(data) |-> target(k)], kept)

\* insertParsedData(content, startPosition): the calls to the cell-update listeners
insertParsedData(content, startPosition) ==
    saveCellValues(updatesFrom(parseCSVContent(content),
                               firstCellOf(startPosition, getTopLeftCellInSelection)))

\* handlePaste(ev), ev.clipboardData.getData("text/plain") being text
handlePaste(text) ==
    IF ~hasFocus \/ isEditing.type # "none" THEN unchanged
    ELSE IF ~hasSelection THEN unchanged
    ELSE IF text = EmptyText THEN [unchanged EXCEPT !.prevented = TRUE]
    ELSE [unchanged EXCEPT !.prevented = TRUE,
                           !.updates = insertParsedData(text, Undefined)]

\* handleDrop(ev) and the onload of its FileReader; ev.csv says whether a .csv
\* or .tsv file is among the files dropped, ev.content is what that file holds
handleDrop(ev) ==
    IF ~hasFocus THEN unchanged
    ELSE IF ~ev.csv \/ ev.content = EmptyText THEN [unchanged EXCEPT !.prevented = TRUE]
    ELSE [unchanged EXCEPT !.prevented = TRUE,
                           !.updates = insertParsedData(ev.content, Undefined)]

\* an entry point that calls neither willMaybeUpdate() nor onUpdate()
Direct(op, out) ==
    /\ steps < MaxOps
    /\ steps' = steps + 1
    /\ lastOp' = op
    /\ log' = << >>
    /\ fillLog' = << >>
    /\ updateLog' = out.updates
    /\ copyLog' = 0
    /\ prevented' = out.prevented
    /\ thrown' = out.thrown
    /\ UNCHANGED << numRows, numCols, groups, hasFocus, selections, isSelecting,
                    isEditing, isHovering, controlled, prevState, nextState, patches,
                    selAlias, nextStateListeners, requestedStateListeners, behaviour,
                    closures, gesture, fn, held >>

HandlePaste(texts) ==
    \E text \in texts : Direct(Op("handlePaste", << text >>), handlePaste(text))

HandleDrop(texts) ==
    \E csv \in BOOLEAN, content \in texts :
        Direct(Op("handleDrop", << content, csv >>),
               handleDrop([csv |-> csv, content |-> content]))

-----------------------------------------------------------------------------
(* Specification SpecPaste: one paste or file drop with the top-left         *)
(* selected cell at every cell of the window                                 *)

\* lines of one value and lines of MaxLines values
Lines == UNION {[1..n -> {"", "a"}] : n \in {1, MaxLines}}
Texts == UNION {[1..n -> Lines] : n \in 1..MaxLines}

PasteSeeds ==
    SeedSelections \cup {<< mkArea(c.row, c.col, Num(c.row), Num(c.col)) >> : c \in Cells}

PasteInit ==
    /\ \E rows \in GridSizes, cols \in GridSizes :
        /\ numRows = rows
        /\ numCols = cols
    /\ selections \in PasteSeeds
    /\ hasFocus \in BOOLEAN
    /\ isSelecting = NoneSelecting
    /\ isEditing = NoneEditing
    /\ isHovering = NoneHovering
    /\ held = NoSnapshot
    /\ UncontrolledWith(<< Owner >>)

PasteNext ==
    \/ steps = 0 /\ HandlePaste(Texts)
    \/ steps = 0 /\ HandleDrop(Texts)

SpecPaste == PasteInit /\ [][PasteNext]_vars

\* a paste or a file drop was the last entry point
Inserted == lastOp.name \in {"handlePaste", "handleDrop"}

\* every update of every batch handed to a cell-update listener has its row
\* at most maxRow and its column at most maxCol, where the axis is finite
UpdatesWithin(maxRow, maxCol) ==
    \A b \in 1..Len(updateLog) : \A k \in 1..Len(updateLog[b].updates) :
        /\ numRows.type = "number" => updateLog[b].updates[k].rowIndex <= maxRow
        /\ numCols.type = "number" => updateLog[b].updates[k].colIndex <= maxCol

\* C31: every update forwarded by a paste or a file drop has rowIndex at most
\* numRows - 1 on a finite row count and colIndex at most numCols - 1 on a
\* finite column count
C31_PasteClippedToGrid ==
    Inserted => UpdatesWithin(numRows.value - 1, numCols.value - 1)

\* a paste forwarded an update for the row numRows, one past the last row
C31_RowPastGridReached ==
    /\ lastOp.name = "handlePaste"
    /\ numRows.type = "number"
    /\ Len(updateLog) > 0
    /\ \E k \in 1..Len(updateLog[1].updates) :
           updateLog[1].updates[k].rowIndex = numRows.value

\* the bound the code clips at is the count itself
C31_ClippedAtCount ==
    Inserted => UpdatesWithin(numRows.value, numCols.value)

\* a parsed entry was dropped: fewer updates than the text has cells
C31_DroppedReached ==
    /\ lastOp.name = "handleDrop"
    /\ Len(updateLog) > 0
    /\ Len(updateLog[1].updates) < Len(parseCSVContent(lastOp.a[1]))
    /\ Len(updateLog[1].updates) > 0

-----------------------------------------------------------------------------
(* Specification SpecTopLeft: getTopLeftCellInSelection() on no selection    *)
(* and on every single selection                                             *)

TopLeftInit ==
    /\ \E rows \in GridSizes, cols \in GridSizes :
        /\ numRows = rows
        /\ numCols = cols
    /\ selections \in ListsUpTo(Areas, 1)
    /\ hasFocus = TRUE
    /\ isSelecting = NoneSelecting
    /\ isEditing = NoneEditing
    /\ isHovering = NoneHovering
    /\ held = NoSnapshot
    /\ UncontrolledWith(<< Owner >>)

\* getTopLeftCellInSelection()
CallGetTopLeftCellInSelection ==
    /\ fn.name = "none"
    /\ fn' = [name |-> "getTopLeftCellInSelection", result |-> getTopLeftCellInSelection]
    /\ UNCHANGED managerVars

TopLeftNext == CallGetTopLeftCellInSelection

SpecTopLeft == TopLeftInit /\ [][TopLeftNext]_vars

\* the smaller of a start index and an end bound
SmallestOf(start, end) ==
    IF end.type = "number" /\ end.value < start THEN end.value ELSE start

\* the cell at the smallest row and the smallest column of an area
TopLeftOf(area) ==
    [type |-> "cell", row |-> SmallestOf(area.start.row, area.end.row),
     col |-> SmallestOf(area.start.col, area.end.col)]

\* C32: with one selection getTopLeftCellInSelection() returns the cell at the
\* smallest row and smallest column of the area, in whatever direction the area
\* was dragged, and undefined when nothing is selected
C32_TopLeftOfSingleSelection ==
    fn.name = "getTopLeftCellInSelection" =>
        fn.result = IF Len(selections) = 0 THEN Undefined ELSE TopLeftOf(selections[1])

\* an area dragged up and to the right: the start corner is returned, which is
\* the bottom-left cell
C32_UpRightReached ==
    /\ fn.name = "getTopLeftCellInSelection"
    /\ Len(selections) = 1
    /\ selections[1].end.row.type = "number"
    /\ selections[1].end.col.type = "number"
    /\ selections[1].end.row.value < selections[1].start.row
    /\ selections[1].end.col.value > selections[1].start.col
    /\ fn.result.row = selections[1].start.row
    /\ fn.result # TopLeftOf(selections[1])

\* an area dragged down and to the left: the end corner is returned
C32_DownLeftReached ==
    /\ fn.name = "getTopLeftCellInSelection"
    /\ Len(selections) = 1
    /\ selections[1].end.row.type = "number"
    /\ selections[1].end.col.type = "number"
    /\ selections[1].end.row.value > selections[1].start.row
    /\ selections[1].end.col.value < selections[1].start.col
    /\ fn.result.row = selections[1].end.row.value
    /\ fn.result # TopLeftOf(selections[1])

\* the area runs the same way on both axes, or has no extent on one of them
SameWay(area) ==
    /\ area.end.row.type = "number"
    /\ area.end.col.type = "number"
    /\ \/ area.end.row.value >= area.start.row /\ area.end.col.value >= area.start.col
       \/ area.end.row.value <= area.start.row /\ area.end.col.value <= area.start.col

\* for no selection and for an area dragged down-right or up-left the result
\* is as the claim says
C32_SameWayExact ==
    (/\ fn.name = "getTopLeftCellInSelection"
     /\ Len(selections) = 1 => SameWay(selections[1])) =>
        fn.result = IF Len(selections) = 0 THEN Undefined ELSE TopLeftOf(selections[1])

-----------------------------------------------------------------------------
(* Specification SpecFillPress: a press, flagged as fill handle or not, on a *)
(* manager that may be editing a cell                                        *)

FillPressInit ==
    /\ \E size \in GridSizes :
        /\ numRows = size
        /\ numCols = size
    /\ selections \in ListsUpTo(PressAreas, MaxSel)
    /\ hasFocus = TRUE
    /\ isSelecting = NoneSelecting
    /\ isEditing = NoneEditing
    /\ isHovering = NoneHovering
    /\ held = NoSnapshot
    /\ UncontrolledWith(<< Owner >>)

\* editCell or nothing, then one press
FillPressNext ==
    \/ steps = 0 /\ EditCell({Cell(0, 0)}, {"a"})
    \/ lastOp.name # "cellMouseDown" /\ CellMouseDown(Cells, DownOptions)

SpecFillPress == FillPressInit /\ [][FillPressNext]_vars

\* the step is a cellMouseDown
PressStep == lastOp'.name = "cellMouseDown" /\ steps' = steps + 1

\* the state an ordinary press with the same cell and modifier keys leads to
OrdinaryPress ==
    press(lastOp'.a[1], lastOp'.a[2], [lastOp'.a[3] EXCEPT !.isFillHandle = FALSE],
          Undefined).state

\* C33: cellMouseDown enters Fill only when the selections have a rectangular
\* union and no cell is edited; a fill-handle press while a cell is edited or
\* while the union is not rectangular does what an ordinary press does
C33_FillPressOnlyWhenAllowed ==
    [][PressStep =>
        /\ isSelecting'.type = "fill" =>
               /\ getFillHandleBaseSelection.type # "undefined"
               /\ isEditing.type = "none"
        /\ (/\ lastOp'.a[3].isFillHandle
            /\ \/ isEditing.type # "none"
               \/ getFillHandleBaseSelection.type = "undefined") =>
               getState' = OrdinaryPress]_vars

\* a fill-handle press entered Fill while a cell was being edited
C33_FillWhileEditingReached ==
    /\ lastOp.name = "cellMouseDown"
    /\ lastOp.a[3].isFillHandle
    /\ isEditing.type = "cell"
    /\ isSelecting.type = "fill"

\* what holds: Fill is entered only on a rectangular union, and a fill-handle
\* press on selections that are not rectangular is an ordinary press
C33_FillPressOnlyWhenRectangular ==
    [][PressStep =>
        /\ isSelecting'.type = "fill" => getFillHandleBaseSelection.type # "undefined"
        /\ (lastOp'.a[3].isFillHandle /\ getFillHandleBaseSelection.type = "undefined") =>
               getState' = OrdinaryPress]_vars

\* a fill-handle press on selections that are not rectangular began a drag
C33_RefusedReached ==
    /\ lastOp.name = "cellMouseDown"
    /\ lastOp.a[3].isFillHandle
    /\ ~lastOp.a[3].shiftKey
    /\ ~lastOp.a[3].ctrlKey
    /\ Len(prevState.selections) = 2
    /\ isSelecting.type = "drag"

-----------------------------------------------------------------------------
(* Specification SpecFillDrag: a fill-handle press on any cell, then the     *)
(* pointer enters any cell                                                   *)

FillDragInit ==
    /\ \E size \in GridSizes :
        /\ numRows = size
        /\ numCols = size
    /\ selections \in FillSeeds
    /\ hasFocus = TRUE
    /\ isSelecting = NoneSelecting
    /\ isEditing = NoneEditing
    /\ isHovering = NoneHovering
    /\ held = NoSnapshot
    /\ UncontrolledWith(<< Owner >>)

FillDragNext ==
    \/ steps = 0 /\ CellMouseDown(Cells, {FillHandle})
    \/ steps = 1 /\ CellMouseEnter(Cells)

SpecFillDrag == FillDragInit /\ [][FillDragNext]_vars

\* the last call was a press or an enter that left a fill candidate
FillDragged ==
    /\ lastOp.name \in {"cellMouseDown", "cellMouseEnter"}
    /\ isSelecting.type = "fill"

\* the pointer cell of the last press or enter
PointerCell == Cell(lastOp.a[1], lastOp.a[2])

\* the candidate has the rows of the base
KeepsRows(base, cand) ==
    cand.start.row = base.start.row /\ cand.end.row = base.end.row

\* the candidate has the columns of the base
KeepsCols(base, cand) ==
    cand.start.col = base.start.col /\ cand.end.col = base.end.col

\* the candidate's rows are the rows of the base and every row up or down to p
ReachesRow(base, p, cand) ==
    /\ cand.start.row = MinInt(base.start.row, p.row)
    /\ cand.end.row = max(p.row, base.end.row)

\* the candidate's columns are the columns of the base and every column left
\* or right to p
ReachesCol(base, p, cand) ==
    /\ cand.start.col = MinInt(base.start.col, p.col)
    /\ cand.end.col = max(p.col, base.end.col)

\* the candidate for a base with finite ends, as the claim describes it
FiniteCandidate(base, p, cand) ==
    IF AbsInt(p.row - base.end.row.value) >= AbsInt(p.col - base.end.col.value)
    THEN /\ KeepsCols(base, cand)
         /\ IF cellInSelection(p, base)
            THEN /\ cand.eventType = "shrink"
                 /\ cand.start.row = base.start.row
                 /\ cand.end.row = Num(p.row)
            ELSE cand.eventType = "extend" /\ ReachesRow(base, p, cand)
    ELSE /\ KeepsRows(base, cand)
         /\ IF cellInSelection(p, base)
            THEN /\ cand.eventType = "shrink"
                 /\ cand.start.col = base.start.col
                 /\ cand.end.col = Num(p.col)
            ELSE cand.eventType = "extend" /\ ReachesCol(base, p, cand)

\* the candidate for a base with one Infinite end, as the claim describes it
InfiniteCandidate(base, p, cand) ==
    /\ cand.eventType = "extend"
    /\ IF base.end.row.type = "infinity"
       THEN KeepsRows(base, cand) /\ ReachesCol(base, p, cand)
       ELSE KeepsCols(base, cand) /\ ReachesRow(base, p, cand)

CandidateAsClaimed(base, p, cand) ==
    IF base.end.row.type = "number" /\ base.end.col.type = "number"
    THEN FiniteCandidate(base, p, cand)
    ELSE IF base.end.row.type = "number" \/ base.end.col.type = "number"
    THEN InfiniteCandidate(base, p, cand)
    ELSE TRUE

\* C34: the fill candidate keeps the base's extent on the axis not chosen and
\* reaches the pointer's coordinate on the chosen axis: rows when the pointer is
\* at least as far from the bottom-right corner in rows as in columns, a shrink
\* when the pointer is inside the base, an extend containing the base otherwise;
\* for a base with one Infinite end an extend along the finite axis that reaches
\* the pointer in both directions
C34_FillCandidate ==
    FillDragged => CandidateAsClaimed(getFillHandleBaseSelection, PointerCell, isSelecting)

\* full columns as base and the pointer right of them: the candidate is the
\* base and does not reach the pointer's column
C34_RightOfFullColumnsReached ==
    /\ FillDragged
    /\ lastOp.name = "cellMouseEnter"
    /\ getFillHandleBaseSelection.end.row.type = "infinity"
    /\ getFillHandleBaseSelection.end.col.type = "number"
    /\ PointerCell.col > getFillHandleBaseSelection.end.col.value
    /\ isSelecting.end.col = getFillHandleBaseSelection.end.col

\* the pointer is right of a base of full columns
RightOfFullColumns(base, p) ==
    /\ base.end.row.type = "infinity"
    /\ base.end.col.type = "number"
    /\ p.col > base.end.col.value

\* what holds: the claim in every case but the pointer right of full columns
C34_FillCandidateButRight ==
    (FillDragged /\ ~RightOfFullColumns(getFillHandleBaseSelection, PointerCell)) =>
        CandidateAsClaimed(getFillHandleBaseSelection, PointerCell, isSelecting)

\* a finite base, the pointer outside it and further away in columns
C34_ExtendColsReached ==
    /\ FillDragged
    /\ lastOp.name = "cellMouseEnter"
    /\ getFillHandleBaseSelection.end.row.type = "number"
    /\ getFillHandleBaseSelection.end.col.type = "number"
    /\ isSelecting.eventType = "extend"
    /\ isSelecting.direction = "left"
    /\ isSelecting.start.col < getFillHandleBaseSelection.start.col

\* full rows as base and the pointer above them
C34_AboveFullRowsReached ==
    /\ FillDragged
    /\ getFillHandleBaseSelection.end.col.type = "infinity"
    /\ getFillHandleBaseSelection.end.row.type = "number"
    /\ PointerCell.row < getFillHandleBaseSelection.start.row
    /\ isSelecting.start.row = PointerCell.row

-----------------------------------------------------------------------------
(* Specification SpecHeaderDrag: a header press, the pointer entering a      *)
(* header of the same axis, and the release                                  *)

HeaderDragInit ==
    /\ \E size \in GridSizes :
        /\ numRows = size
        /\ numCols = size
    /\ selections \in FillSeeds
    /\ hasFocus = TRUE
    /\ isSelecting = NoneSelecting
    /\ isEditing = NoneEditing
    /\ isHovering = NoneHovering
    /\ held = NoSnapshot
    /\ UncontrolledWith(<< Owner >>)

\* headerMouseEnter(index, type) while a header of the same type is pressed;
\* the header entered is remembered as the first cell of its line
HeaderDragEnter(indexes) ==
    \E index \in indexes :
        /\ gesture.header.state = "pressed"
        /\ Call(Op("headerMouseEnter", << index, gesture.header.type >>),
                headerMouseEnter(index, gesture.header.type),
                [gesture EXCEPT !.entered = TRUE,
                                !.last = LineStart(gesture.header.type, index)])

HeaderDragNext ==
    \/ steps = 0 /\ HeaderMouseDown(Coords, {NoKeys, Options(FALSE, TRUE, FALSE, FALSE),
                                             Options(TRUE, FALSE, FALSE, FALSE)})
    \/ steps = 1 /\ HeaderDragEnter(Coords)
    \/ steps = 2 /\ MouseUp

SpecHeaderDrag == HeaderDragInit /\ [][HeaderDragNext]_vars

\* a header drag (press, enter, release) has just been completed
HeaderDragged ==
    /\ lastOp.name = "mouseUp"
    /\ gesture.header.state = "committed"
    /\ gesture.entered

\* the index of the header entered
EnteredIndex == IF gesture.header.type = "row" THEN gesture.last.row ELSE gesture.last.col

\* the cells of the lines from the pressed header to the entered one
DraggedCells ==
    UNION {LineCells(gesture.header.type, k) :
              k \in MinInt(gesture.header.index, EnteredIndex)
                        ..MaxInt(gesture.header.index, EnteredIndex)}

\* the drag committed the dragged lines: removed them from the selections if
\* the press began a removal, and otherwise left them as the last area
DraggedLinesCommitted(before) ==
    IF prevState.isSelecting.type = "remove"
    THEN SelectedCells(selections) \cap GridCells
             = (SelectedCells(before) \cap GridCells) \ DraggedCells
    ELSE /\ Len(selections) > 0
         /\ CellsOf(selections[Len(selections)]) \cap GridCells = DraggedCells
         /\ prevState.isSelecting.type = "add" =>
                SubSeq(selections, 1, Len(selections) - 1) = before

\* C35: a header drag from line i to line j commits an area that spans the
\* lines min(i,j)..max(i,j) over the full range of the other axis, with any
\* modifier and whatever selections are committed; a toggle drag that adds lines
\* next to a rectangular selection adds exactly the dragged lines
C35_HeaderDragCommitsLines ==
    HeaderDragged => DraggedLinesCommitted(gesture.header.before)

\* a toggle drag over rows next to one rectangular selection committed the rows
\* of that selection instead of the dragged rows
C35_AddDragTookBaseReached ==
    /\ HeaderDragged
    /\ gesture.header.type = "row"
    /\ toggleHeld(gesture.header.options)
    /\ prevState.isSelecting.type = "add"
    /\ Len(gesture.header.before) = 1
    /\ Len(selections) = 2
    /\ selections[2].start = selections[1].start
    /\ CellsOf(selections[2]) \cap GridCells # DraggedCells

\* what holds: a drag without modifier commits exactly the dragged lines
C35_PlainDragCommitsLines ==
    (HeaderDragged /\ gesture.header.options = NoKeys) =>
        /\ Len(selections) = 1
        /\ CellsOf(selections[1]) \cap GridCells = DraggedCells

\* a plain drag upwards over three rows
C35_PlainUpReached ==
    /\ HeaderDragged
    /\ gesture.header.options = NoKeys
    /\ gesture.header.type = "row"
    /\ gesture.header.index = 2
    /\ EnteredIndex = 0
    /\ Len(gesture.header.before) = 2

\* what holds as well: a toggle drag on selections without a rectangular union
C35_ToggleDragWithoutBase ==
    (/\ HeaderDragged
     /\ toggleHeld(gesture.header.options)
     /\ getFillHandleBaseSelectionOf(gesture.header.before).type = "undefined") =>
        DraggedLinesCommitted(gesture.header.before)

-----------------------------------------------------------------------------
(* createPatches on a list that lost one selection (SpecPatches)             *)

\* list with its element at index i (from 0) deleted
DeletedAt(list, i) == SubSeq(list, 1, i) \o SubSeq(list, i + 2, Len(list))

\* createPatches was called with next.selections non-empty and equal to
\* prev.selections with exactly one element deleted
OneSelectionDeleted ==
    /\ fn.name = "createPatches"
    /\ Len(fn.next.selections) > 0
    /\ \E i \in 0..(Len(fn.prev.selections) - 1) :
           DeletedAt(fn.prev.selections, i) = fn.next.selections

\* the patches of the call whose path is in selections
SelectionPatchesOf(list) == SelectSeq(list, LAMBDA p : p.path.root = "selections")

\* exactly one patch for selections, a removal whose index gives next.selections
OneRemovePatch ==
    LET emitted == SelectionPatchesOf(fn.result)
    IN  /\ Len(emitted) = 1
        /\ emitted[1].op = "remove"
        /\ emitted[1].path.rest = "index"
        /\ DeletedAt(fn.prev.selections, emitted[1].path.index) = fn.next.selections

\* the deleted element has an equal one left in next.selections
DeletedHasDuplicate ==
    \E i \in 0..(Len(fn.prev.selections) - 1) :
        /\ DeletedAt(fn.prev.selections, i) = fn.next.selections
        /\ \E k \in 1..Len(fn.next.selections) :
               fn.next.selections[k] = fn.prev.selections[i + 1]

\* C36: when next.selections is non-empty and is prev.selections with exactly
\* one element deleted, createPatches emits exactly one patch for selections, a
\* remove patch whose index deleted from prev.selections yields next.selections,
\* also when the deleted element has an equal duplicate elsewhere in the list
C36_SingleRemovalPatch == OneSelectionDeleted => OneRemovePatch

\* one of two equal selections was deleted and the whole list was set instead
C36_DuplicateReplacedReached ==
    /\ OneSelectionDeleted
    /\ DeletedHasDuplicate
    /\ SelectionPatchesOf(fn.result)
           = << Patch("replace", rootPath("selections"), fn.next.selections) >>

\* what holds: the remove patch when the deleted element has no duplicate, and
\* one patch that sets the whole list when it has
C36_SingleRemovalUnlessDuplicate ==
    OneSelectionDeleted =>
        IF DeletedHasDuplicate
        THEN SelectionPatchesOf(fn.result)
                 = << Patch("replace", rootPath("selections"), fn.next.selections) >>
        ELSE OneRemovePatch

\* the middle one of three selections, which has no duplicate, was deleted
C36_RemovePatchReached ==
    /\ OneSelectionDeleted
    /\ ~DeletedHasDuplicate
    /\ Len(fn.prev.selections) = 3
    /\ OneRemovePatch
    /\ SelectionPatchesOf(fn.result)[1].path.index = 1

-----------------------------------------------------------------------------
(* subtractSelection and areas with an Infinite end (SpecGeo)                *)

\* subtractSelection has been called
Subtracted == fn.name = "subtractSelection"

\* the largest row and column of an area, as subtractSelection computes them
MaxRowOf(area) == max(area.start.row, area.end.row)
MaxColOf(area) == max(area.start.col, area.end.col)

\* toRemove overlaps the original, has an Infinite end on an axis, and the
\* original is unbounded on that axis: the removal goes past the original's
\* Infinite bound
RemovesPastInfiniteBound ==
    /\ selectionsOverlap(fn.original, fn.toRemove)
    /\ \/ MaxRowOf(fn.toRemove) = INF /\ MaxRowOf(fn.original) = INF
       \/ MaxColOf(fn.toRemove) = INF /\ MaxColOf(fn.original) = INF

-----------------------------------------------------------------------------
(* Specification SpecUnsubscribe: the functions returned by onNextState and  *)
(* onNewRequestedState, called by their owner any number of times            *)

\* the function that onNextState / onNewRequestedState returned for callback
\* is called (lines 77-82, 93-98); the index that indexOf found is kept with
\* the operation, 0 for the -1 of the source
Unsubscribe(listName, callbacks) ==
    \E callback \in callbacks :
        /\ steps < MaxOps
        /\ [list |-> listName, callback |-> callback] \in closures
        /\ steps' = steps + 1
        /\ IF listName = "nextStateListeners"
           THEN /\ nextStateListeners' = unsubscribe(nextStateListeners, callback)
                /\ lastOp' = Op("unsubscribe", << listName, callback,
                                                 indexOf(nextStateListeners, callback) >>)
                /\ UNCHANGED requestedStateListeners
           ELSE /\ requestedStateListeners' = unsubscribe(requestedStateListeners, callback)
                /\ lastOp' = Op("unsubscribe", << listName, callback,
                                                 indexOf(requestedStateListeners, callback) >>)
                /\ UNCHANGED nextStateListeners
        /\ log' = << >>
        /\ UNCHANGED << numRows, numCols, groups, hasFocus, selections, isSelecting,
                        isEditing, isHovering, controlled, prevState, nextState, patches,
                        selAlias, behaviour, closures, fillLog, updateLog, copyLog,
                        prevented, thrown, gesture, fn, held >>

UnsubscribeInit ==
    /\ numRows = FiniteSize
    /\ numCols = FiniteSize
    /\ selections = << >>
    /\ hasFocus = FALSE
    /\ isSelecting = NoneSelecting
    /\ isEditing = NoneEditing
    /\ isHovering = NoneHovering
    /\ held = NoSnapshot
    /\ groups = << >>
    /\ controlled \in BOOLEAN
    /\ prevState = ConstructedState
    /\ nextState = ConstructedState
    /\ patches = << >>
    /\ selAlias = 0
    /\ nextStateListeners = Committed
    /\ requestedStateListeners = Requested
    /\ behaviour = << Quiet, Quiet, Quiet, Quiet, Quiet, Quiet >>
    /\ closures = {[list |-> "nextStateListeners", callback |-> c] : c \in {1, 2, 3}}
                    \cup {[list |-> "requestedStateListeners", callback |-> c] : c \in {4, 5}}
    /\ log = << >>
    /\ fillLog = << >>
    /\ updateLog = << >>
    /\ copyLog = 0
    /\ prevented = FALSE
    /\ thrown = ""
    /\ lastOp = Op("new", << >>)
    /\ gesture = NoGesture
    /\ steps = 0
    /\ fn = NoCall

UnsubscribeNext ==
    \/ Unsubscribe("nextStateListeners", {1, 2, 3})
    \/ Unsubscribe("requestedStateListeners", {4, 5})
    \/ Focus
    \/ Blur

SpecUnsubscribe == UnsubscribeInit /\ [][UnsubscribeNext]_vars

\* the callbacks in a list
Registered(list) == {list[i] : i \in 1..Len(list)}

\* the step calls an unsubscribe function
UnsubscribeStep == steps' # steps /\ lastOp'.name = "unsubscribe"

\* the step removes no callback but the one at lastOp'.a[2]
KeepsTheOthers ==
    /\ Registered(nextStateListeners) \ {lastOp'.a[2]} \subseteq Registered(nextStateListeners')
    /\ Registered(requestedStateListeners) \ {lastOp'.a[2]}
           \subseteq Registered(requestedStateListeners')

\* C38: calling the unsubscribe function of onNextState or onNewRequestedState
\* a second time has no effect: it never removes a listener other than the one
\* it was created for, so every other registered listener keeps receiving
\* notifications
C38_UnsubscribeRemovesOnlyItsOwn == [][UnsubscribeStep => KeepsTheOthers]_vars

\* the function of listener 1 was called twice, and the second call removed
\* listener 3, the last of the list
C38_SecondCallRemovedLastReached ==
    /\ steps = 2
    /\ lastOp = Op("unsubscribe", << "nextStateListeners", 1, 0 >>)
    /\ nextStateListeners = << 2 >>

\* what holds: the call made while the callback is registered removes it and
\* nothing else
C38_FirstCallRemovesItsOwn ==
    [][(UnsubscribeStep /\ lastOp'.a[3] # 0) =>
           /\ KeepsTheOthers
           /\ lastOp'.a[2] \notin Registered(nextStateListeners')
           /\ lastOp'.a[2] \notin Registered(requestedStateListeners')]_vars

\* a notification after listener 2 unsubscribed once reached listeners 1 and 3
C38_OthersNotifiedReached ==
    /\ ~controlled
    /\ steps = 2
    /\ lastOp.name = "focus"
    /\ Called = << 1, 3 >>

-----------------------------------------------------------------------------
(* saveCellValue: part_002 lines 2279-2287                                   *)

\* one this.onUpdate() made by saveCellValue (lines 103-119): no
\* willMaybeUpdate() precedes it, so this.prevState is the snapshot the last
\* entry point took, prev.  r is the manager, this.patches and the error so far
onUpdateAfter(prev, r) ==
    IF controlled
    THEN LET all == r.patches \o createPatches(prev, r.m.state)
         IN  requestState([r.m EXCEPT !.state = setState(@, prev)], all,
                          applyPatches(prev, all))
    ELSE [m |-> forEachListener(r.m, "nextStateListeners", r.m.state),
          patches |-> r.patches, thrown |-> ""]

RECURSIVE saveCellValueFrom(_, _, _, _)
\* the forEach of line 2283 from listener k on: listener([update]) and then
\* this.onUpdate(); an error thrown by onUpdate() ends the forEach
saveCellValueFrom(listeners, k, prev, r) ==
    IF k > Len(listeners) \/ r.thrown # "" THEN r
    ELSE saveCellValueFrom(listeners, k + 1, prev, onUpdateAfter(prev, r))

\* saveCellValue(cell, value) with the callbacks of listenToUpdateData in listeners
saveCellValue(listeners, prev) ==
    saveCellValueFrom(listeners, 1, prev,
                      [m |-> Manager(getState), patches |-> patches, thrown |-> ""])

\* the entry point saveCellValue(cell, value), called by the owner of the manager.
\* The operation keeps what getState() returned before the call and the name of
\* the entry point called before it
SaveCellValue(cells, values, registered) ==
    \E cell \in cells, value \in values, listeners \in registered :
        LET r == saveCellValue(listeners, prevState)
            ran == controlled /\ Len(listeners) > 0
        IN  /\ steps < MaxOps
            /\ steps' = steps + 1
            /\ lastOp' = Op("saveCellValue",
                            << cell, value, listeners, getState, lastOp.name >>)
            /\ hasFocus' = r.m.state.hasFocus
            /\ selections' = r.m.state.selections
            /\ isSelecting' = r.m.state.isSelecting
            /\ isEditing' = r.m.state.isEditing
            /\ isHovering' = r.m.state.isHovering
            /\ patches' = r.patches
            /\ selAlias' = IF r.m.applied /\ controlled THEN replayedArray(r.patches)
                           ELSE IF ran THEN 0 ELSE selAlias
            /\ held' = IF ran THEN [NoSnapshot EXCEPT !.keeps = held.keeps] ELSE held
            /\ nextStateListeners' = r.m.nextStateListeners
            /\ requestedStateListeners' = r.m.requestedStateListeners
            /\ closures' = r.m.closures
            /\ log' = r.m.log
            /\ fillLog' = << >>
            /\ updateLog' = [k \in 1..Len(listeners) |->
                                [listener |-> listeners[k],
                                 updates |-> << [rowIndex |-> cell.row, colIndex |-> cell.col,
                                                 value |-> value] >>]]
            /\ copyLog' = 0
            /\ prevented' = FALSE
            /\ thrown' = r.thrown
            /\ UNCHANGED << numRows, numCols, groups, controlled, prevState, nextState,
                            behaviour, gesture, fn >>

-----------------------------------------------------------------------------
(* Specification SpecSave: saveCellValue after entry points and setState     *)
(* calls of the owner, uncontrolled and controlled                           *)

\* the objects the owner hands to setState
SaveStates ==
    {[provided |-> keys,
      value |-> [hasFocus |-> TRUE, selections |-> << AreaA >>,
                 isSelecting |-> [NoneSelecting EXCEPT !.type = "drag",
                                                       !.start = Cell(1, 1),
                                                       !.end = [row |-> Num(2), col |-> Num(1)]],
                 isEditing |-> NoneEditing, isHovering |-> hoveringCell(0, 1)]] :
        keys \in {{"hasFocus"}, {"selections"}, {"isSelecting", "isHovering"}, StateFields}}

\* the callbacks registered with listenToUpdateData when saveCellValue is called
RegisteredForData ==
    {SubSeq(listenToUpdateDataListeners, 1, n) : n \in 0..Len(listenToUpdateDataListeners)}

SaveInit ==
    /\ numRows = FiniteSize
    /\ numCols = FiniteSize
    /\ groups = << >>
    /\ selections \in {<< >>, << AreaB >>}
    /\ hasFocus = FALSE
    /\ isSelecting = NoneSelecting
    /\ isEditing = NoneEditing
    /\ isHovering = NoneHovering
    /\ held = NoSnapshot
    /\ controlled \in BOOLEAN
    /\ prevState = ConstructedState
    /\ nextState = ConstructedState
    /\ patches = << >>
    /\ selAlias = 0
    /\ nextStateListeners = << 1 >>
    /\ requestedStateListeners = << 2 >>
    /\ \E b \in {Quiet, Applies} : behaviour = << Quiet, b >>
    /\ closures = {[list |-> "nextStateListeners", callback |-> 1],
                   [list |-> "requestedStateListeners", callback |-> 2]}
    /\ log = << >>
    /\ fillLog = << >>
    /\ updateLog = << >>
    /\ copyLog = 0
    /\ prevented = FALSE
    /\ thrown = ""
    /\ lastOp = Op("new", << >>)
    /\ gesture = NoGesture
    /\ steps = 0
    /\ fn = NoCall

SaveNext ==
    \/ Focus
    \/ EditCell({Cell(0, 0)}, {"a"})
    \/ CellMouseDown({Cell(0, 0)}, {NoKeys})
    \/ SetState(SaveStates)
    \/ SaveCellValue({Cell(0, 1)}, {"v"}, RegisteredForData)

SpecSave == SaveInit /\ [][SaveNext]_vars

\* saveCellValue has just returned
Saved == lastOp.name = "saveCellValue"
\* what getState() returned before the call
BeforeSave == lastOp.a[4]

\* C39: saveCellValue changes none of hasFocus, selections, isSelecting,
\* isEditing and isHovering, uncontrolled and controlled, whatever came before
\* it and however many cell-update listeners are registered; in controlled mode
\* it does not reset the live state to a snapshot taken before the owner's
\* latest setState
C39_SaveCellValueKeepsState == Saved => getState = BeforeSave

\* controlled, an owner that does not answer the requests at once: saveCellValue
\* right after setState({hasFocus: true}) put hasFocus back to the false of the
\* snapshot taken by the entry point before
C39_RevertedReached ==
    /\ Saved
    /\ controlled
    /\ behaviour[2] = Quiet
    /\ lastOp.a[5] = "setState"
    /\ Len(lastOp.a[3]) = 1
    /\ BeforeSave.hasFocus
    /\ ~hasFocus
    /\ ~prevState.hasFocus
    /\ thrown = ""

\* what holds: nothing changes in uncontrolled mode or without a cell-update
\* listener, and isEditing never changes
C39_KeepsStateUncontrolled ==
    Saved =>
        /\ (~controlled \/ Len(lastOp.a[3]) = 0) => getState = BeforeSave
        /\ isEditing = BeforeSave.isEditing

\* uncontrolled, two cell-update listeners: the committed listener was called
\* twice and the state set by the owner is kept
C39_UncontrolledKeptReached ==
    /\ Saved
    /\ ~controlled
    /\ lastOp.a[5] = "setState"
    /\ Len(lastOp.a[3]) = 2
    /\ Called = << 1, 1 >>
    /\ getState = BeforeSave
    /\ getState # prevState

-----------------------------------------------------------------------------
(* isAllSelected: part_002 lines 836-939                                     *)

\* a selection with its corners ordered and an Infinite end replaced by the
\* last index of the grid (lines 861-873); the grid is finite here
normalizedSelection(selection) ==
    LET endRow == max(selection.start.row, selection.end.row)
        endCol == max(selection.start.col, selection.end.col)
    IN  [startRow |-> min(selection.start.row, selection.end.row),
         endRow |-> IF endRow.type = "infinity" THEN numRows.value - 1 ELSE endRow.value,
         startCol |-> min(selection.start.col, selection.end.col),
         endCol |-> IF endCol.type = "infinity" THEN numCols.value - 1 ELSE endCol.value]

\* the pairs of neighbours of a sorted set of boundaries: sorted[i], sorted[i + 1]
neighbours(boundaries) ==
    {pair \in boundaries \X boundaries :
        /\ pair[1] < pair[2]
        /\ ~ \E b \in boundaries : pair[1] < b /\ b < pair[2]}

\* the coordinate compression of lines 887-936 over the normalized selections
unionCoversTable(normalizedSelections) ==
    LET idx == 1..Len(normalizedSelections)
        rowBoundaries == {0, numRows.value}
                             \cup {normalizedSelections[i].startRow : i \in idx}
                             \cup {normalizedSelections[i].endRow + 1 : i \in idx}
        colBoundaries == {0, numCols.value}
                             \cup {normalizedSelections[i].startCol : i \in idx}
                             \cup {normalizedSelections[i].endCol + 1 : i \in idx}
    IN  \A rows \in neighbours(rowBoundaries), cols \in neighbours(colBoundaries) :
            \/ rows[1] >= numRows.value
            \/ cols[1] >= numCols.value
            \/ \E i \in idx :
                   /\ normalizedSelections[i].startRow <= rows[1]
                   /\ normalizedSelections[i].endRow >= MinInt(rows[2] - 1, numRows.value - 1)
                   /\ normalizedSelections[i].startCol <= cols[1]
                   /\ normalizedSelections[i].endCol >= MinInt(cols[2] - 1, numCols.value - 1)

\* isAllSelected()
isAllSelected ==
    IF Len(selections) = 0 THEN FALSE
    ELSE IF numRows.type = "infinity" \/ numCols.type = "infinity"
    THEN \E i \in 1..Len(selections) :
             /\ min(selections[i].start.row, selections[i].end.row) = 0
             /\ min(selections[i].start.col, selections[i].end.col) = 0
             /\ max(selections[i].start.row, selections[i].end.row).type = "infinity"
             /\ max(selections[i].start.col, selections[i].end.col).type = "infinity"
    ELSE LET normalizedSelections ==
                 [i \in 1..Len(selections) |-> normalizedSelection(selections[i])]
         IN  \/ \E i \in 1..Len(selections) :
                    /\ normalizedSelections[i].startRow = 0
                    /\ normalizedSelections[i].startCol = 0
                    /\ normalizedSelections[i].endRow = numRows.value - 1
                    /\ normalizedSelections[i].endCol = numCols.value - 1
             \/ unionCoversTable(normalizedSelections)

-----------------------------------------------------------------------------
(* Specification SpecAll: isAllSelected() on every list of up to MaxSel      *)
(* areas, before and after Ctrl+A, on the four shapes of grid                *)

AllInit ==
    /\ \E rows \in GridSizes, cols \in GridSizes :
        /\ numRows = rows
        /\ numCols = cols
    /\ selections \in ListsUpTo(Areas, MaxSel)
    /\ hasFocus = TRUE
    /\ isSelecting = NoneSelecting
    /\ isEditing = NoneEditing
    /\ isHovering = NoneHovering
    /\ held = NoSnapshot
    /\ UncontrolledWith(<< Owner >>)

CallIsAllSelected ==
    /\ fn.name = "none"
    /\ fn' = [name |-> "isAllSelected", result |-> isAllSelected]
    /\ UNCHANGED managerVars

AllNext ==
    \/ CallIsAllSelected
    \/ steps = 0 /\ fn.name = "none"
           /\ HandleKeyDown({KeyboardEvent("a", FALSE, TRUE, FALSE)})

SpecAll == AllInit /\ [][AllNext]_vars

\* every cell of the grid is in one of the selections
EveryCellSelected == GridCells \subseteq CellsOfList(selections)

AllAsked == fn.name = "isAllSelected"

\* C40: isAllSelected() is true exactly when every cell of the grid is
\* selected, on grids finite in both axes, unbounded in both axes, or unbounded
\* in one axis only; it is true right after Ctrl/Cmd+A on each of them, and true
\* when the grid is covered only by the union of several selections
C40_AllSelectedExact == AllAsked => (fn.result <=> EveryCellSelected)

\* Ctrl+A on a grid with unbounded rows and three columns selected every cell,
\* and isAllSelected() returned false
C40_MixedGridAfterSelectAllReached ==
    /\ AllAsked
    /\ numRows = INF
    /\ numCols = FiniteSize
    /\ lastOp.name = "handleKeyDown"
    /\ selections = << wholeGrid >>
    /\ EveryCellSelected
    /\ fn.result = FALSE

\* an unbounded grid covered by row 0 and the rows below it, and false returned
C40_InfiniteUnionReached ==
    /\ AllAsked
    /\ numRows = INF
    /\ numCols = INF
    /\ selections = << mkArea(0, 0, Num(0), INF), mkArea(1, 0, INF, INF) >>
    /\ EveryCellSelected
    /\ fn.result = FALSE

\* what holds: true is returned only when every cell is selected; on a grid
\* finite in both axes it is returned exactly then, and on a grid unbounded in
\* both axes it is returned after Ctrl+A
C40_AllSelectedOnFiniteGrid ==
    AllAsked =>
        /\ fn.result => EveryCellSelected
        /\ FiniteGrid => (fn.result <=> EveryCellSelected)
        /\ (numRows.type = numCols.type /\ lastOp.name = "handleKeyDown") => fn.result

\* a 3x3 grid covered only by the union of its first row and its other rows
C40_FiniteUnionReached ==
    /\ AllAsked
    /\ FiniteGrid
    /\ selections = << mkArea(0, 0, Num(0), INF), mkArea(2, 2, Num(1), Num(0)) >>
    /\ fn.result = TRUE

=============================================================================
